---- MODULE Spec2Model ----
(***************************************************************************)
(* Model of the schema-driven configuration form engine                    *)
(* (src/src/components/schema-form/SchemaForm.tsx).                        *)
(*                                                                         *)
(* JavaScript values are modelled with their identity: a scalar is an      *)
(* immediate value, an object or an array is a reference into a heap of    *)
(* containers, and two references are === exactly when their addresses     *)
(* are equal.  A schema node is a record that has exactly the fields the   *)
(* JSON schema document has.                                               *)
(*                                                                         *)
(* Spec follows an editing session: user events on the rendered editors,   *)
(* each propagated by the onChange chain to a new root value.  SpecFn      *)
(* applies the helper functions (getSchemaType, the field classifier of    *)
(* ObjectField, getDefaultValue) to schema nodes drawn from a bounded set. *)
(*                                                                         *)
(* SpecPage follows ModuleEditorPage (src/src/pages/ModulesPage.tsx), the  *)
(* page that hosts the form: the configuration query, the save and reset   *)
(* mutations, the requests of src/src/lib/api.ts on their way to the       *)
(* backend and back.  SpecPageFair adds that every request is answered     *)
(* and every response delivered.                                           *)
(***************************************************************************)
EXTENDS Integers, Sequences, FiniteSets, TLC

VARIABLES
    heap,     \* the containers allocated so far, heap[a] is the one at address a
    schema,   \* the schema prop handed to SchemaForm
    root,     \* the value prop handed to SchemaForm (held by the caller)
    root0,    \* the value the session started with
    event,    \* the last user event dispatched to an editor, with the heap size and
              \* the root value at the time
    calls,    \* the onChange invocations the last event caused, leaf first
    nEdits,   \* number of events dispatched so far
    fnNode,   \* the schema node handed to a helper function
    fnOut,    \* what the helper returned
    page,     \* ModuleEditorPage: route parameters, query and mutation state, dialog
    server,   \* the backend's stored override for the module the page edits
    net,      \* the HTTP requests and responses in flight
    peer,     \* the value prop of a second SchemaForm over the same schema
    view      \* the state of every CollapsibleSection, by the section's path: isOpen,
              \* with the section's depth prop and whether the user has toggled it

vars ==
    <<heap, schema, root, root0, event, calls, nEdits, fnNode, fnOut, page, server, net,
      peer, view>>

-----------------------------------------------------------------------------
(* Bounds of the model *)

MaxEdits == 2
MaxProps == 3
MaxSaves == 1
MaxResets == 1
\* with a backend that may fail: edits of the form, and clicks on Save
MaxEditsFailing == 1
MaxSaveAttempts == 2

-----------------------------------------------------------------------------
(* JavaScript values *)

Undefined == [t |-> "undefined"]
Null == [t |-> "null"]
Str(s) == [t |-> "string", s |-> s]
\* a number is n * 10^(-k), with k the least such exponent (k = 0: an integer)
Num(n) == [t |-> "number", n |-> n, k |-> 0]
Dec(n, k) == [t |-> "number", n |-> n, k |-> k]
NaN == [t |-> "NaN"]
Bool(b) == [t |-> "boolean", b |-> b]
Ref(a) == [t |-> "ref", a |-> a]

ObjNode(ents) == [k |-> "object", ents |-> ents]
ArrNode(elems) == [k |-> "array", elems |-> elems]
Ent(key, val) == [key |-> key, val |-> val]

IsRef(v) == v.t = "ref"

\* Array.isArray(v)
IsArray(h, v) == IsRef(v) /\ h[v.a].k = "array"

\* typeof v === "object" && v !== null
IsObjectLike(h, v) == IsRef(v)

Abs(n) == IF n < 0 THEN -n ELSE n

RECURSIVE Pow10(_)
Pow10(k) == IF k <= 0 THEN 1 ELSE 10 * Pow10(k - 1)

\* the k decimal digits of n, leading zeros included
RECURSIVE FixedDigits(_, _)
FixedDigits(n, k) == IF k <= 0 THEN "" ELSE FixedDigits(n \div 10, k - 1) \o ToString(n % 10)

\* String(v) for a number
NumberToString(v) ==
    IF v.k = 0 THEN ToString(v.n)
    ELSE (IF v.n < 0 THEN "-" ELSE "") \o ToString(Abs(v.n) \div Pow10(v.k))
            \o "." \o FixedDigits(Abs(v.n) % Pow10(v.k), v.k)

\* String(v) for a scalar
String(v) ==
    CASE v.t = "string" -> v.s
      [] v.t = "number" -> NumberToString(v)
      [] v.t = "NaN" -> "NaN"
      [] v.t = "boolean" -> (IF v.b THEN "true" ELSE "false")
      [] v.t = "null" -> "null"
      [] OTHER -> "undefined"

\* allocation of a new container: the new heap and the reference to it
Alloc(h, node) == [heap |-> Append(h, node), val |-> Ref(Len(h) + 1)]

-----------------------------------------------------------------------------
(* Schema nodes (interface JsonSchema) *)

Has(s, f) == f \in DOMAIN s

ScalarType(k) == [isArray |-> FALSE, name |-> k]
ListType(l) == [isArray |-> TRUE, list |-> l]

\* the value of an expression that evaluates to undefined where a string is expected
UndefinedType == "<undefined>"

\* if (schema.type): a string is truthy unless empty, an array always is
TypeTruthy(s) == Has(s, "type") /\ (s.type.isArray \/ s.type.name # "")

\* faulty variant: the kind-hint is not consulted
getSchemaTypeIgnoringHint(s) ==
    IF Has(s, "properties") THEN "object"
    ELSE IF Has(s, "items") THEN "array"
    ELSE "string"

getSchemaType(s) ==
    IF TypeTruthy(s)
    THEN IF s.type.isArray
         THEN (IF Len(s.type.list) > 0 THEN s.type.list[1] ELSE UndefinedType)
         ELSE s.type.name
    ELSE IF Has(s, "properties") THEN "object"
    ELSE IF Has(s, "items") THEN "array"
    ELSE IF Has(s, "enum") THEN "string"
    ELSE "string"

\* faulty variant: if (schema.default) instead of schema.default !== undefined
getDefaultValueTruthyDefault(s, h) ==
    IF Has(s, "default") /\ s.default \notin {Null, Bool(FALSE), Num(0), Str("")}
    THEN [heap |-> h, val |-> s.default]
    ELSE LET type == getSchemaType(s) IN
         CASE type = "object" -> Alloc(h, ObjNode(<<>>))
           [] type = "array" -> Alloc(h, ArrNode(<<>>))
           [] type = "boolean" -> [heap |-> h, val |-> Bool(FALSE)]
           [] type \in {"number", "integer"} -> [heap |-> h, val |-> Num(0)]
           [] OTHER -> [heap |-> h, val |-> Str("")]

\* the value getDefaultValue returns and the heap after the call
getDefaultValue(s, h) ==
    IF Has(s, "default")
    THEN [heap |-> h, val |-> s.default]
    ELSE LET type == getSchemaType(s) IN
         CASE type = "object" -> Alloc(h, ObjNode(<<>>))
           [] type = "array" -> Alloc(h, ArrNode(<<>>))
           [] type = "boolean" -> [heap |-> h, val |-> Bool(FALSE)]
           [] type \in {"number", "integer"} -> [heap |-> h, val |-> Num(0)]
           [] OTHER -> [heap |-> h, val |-> Str("")]

\* const properties = schema.properties ?? {}; Object.entries(properties):
\* the declared properties as [name, schema] pairs in the object's own order
entries(s) == IF Has(s, "properties") THEN s.properties ELSE <<>>

\* faulty variant: the simple group is regrouped by kind, booleans last
simpleFieldsByKind(s) ==
    SelectSeq(entries(s), LAMBDA e : getSchemaType(e.schema) \notin {"object", "array", "boolean"})
        \o SelectSeq(entries(s), LAMBDA e : getSchemaType(e.schema) = "boolean")

\* entries.filter(... type !== "object" && type !== "array")
simpleFields(s) ==
    SelectSeq(entries(s), LAMBDA e : getSchemaType(e.schema) # "object"
                                        /\ getSchemaType(e.schema) # "array")

\* entries.filter(... type === "object" || type === "array")
complexFields(s) ==
    SelectSeq(entries(s), LAMBDA e : getSchemaType(e.schema) = "object"
                                        \/ getSchemaType(e.schema) = "array")

Names(es) == [i \in 1..Len(es) |-> es[i].name]

\* ObjectField: const requiredFields = schema.required ?? []; the list only marks
\* the labels of the properties it names
requiredFields(s) == IF Has(s, "required") THEN s.required ELSE <<>>

-----------------------------------------------------------------------------
(* Containers as the editors read them *)

Range(q) == {q[i] : i \in 1..Len(q)}

Key(k) == [key |-> k]
Idx(i) == [idx |-> i]

\* own enumerable properties of a container, in order: the entries of an object,
\* the indices "0", "1", ... of an array
OwnEntries(h, v) ==
    IF h[v.a].k = "object" THEN h[v.a].ents
    ELSE [i \in 1..Len(h[v.a].elems) |-> Ent(ToString(i - 1), h[v.a].elems[i])]

\* objValue[propName]
Lookup(ents, key) ==
    IF \E i \in 1..Len(ents) : ents[i].key = key
    THEN ents[CHOOSE i \in 1..Len(ents) : ents[i].key = key].val
    ELSE Undefined

HasKey(ents, key) == \E i \in 1..Len(ents) : ents[i].key = key

\* { ...ents, [key]: val }
SpreadWith(ents, key, val) ==
    IF HasKey(ents, key)
    THEN [i \in 1..Len(ents) |-> IF ents[i].key = key THEN Ent(key, val) ELSE ents[i]]
    ELSE Append(ents, Ent(key, val))

\* ObjectField: const objValue = typeof value === "object" && value !== null ? value : {}
objValue(h, v) == IF IsObjectLike(h, v) THEN OwnEntries(h, v) ELSE <<>>

\* faulty variant: any container counts as a sequence of its values
arrayValueOfAnyContainer(h, v) ==
    IF IsRef(v)
    THEN [i \in 1..Len(OwnEntries(h, v)) |-> OwnEntries(h, v)[i].val]
    ELSE <<>>

\* ArrayField: const arrayValue = Array.isArray(value) ? value : []
arrayValue(h, v) == IF IsArray(h, v) THEN h[v.a].elems ELSE <<>>

\* faulty variant: an array without items holds arrays again, as deep as the value goes
itemSchemaArray(s) == IF Has(s, "items") THEN s.items ELSE [type |-> ScalarType("array")]

\* ArrayField: const itemSchema = schema.items ?? { type: "string" }
itemSchema(s) == IF Has(s, "items") THEN s.items ELSE [type |-> ScalarType("string")]

-----------------------------------------------------------------------------
(* Change handlers: each returns the argument of the editor's onChange call and
   the heap after the call *)

\* faulty variant: objValue[propName] = propValue; onChange(objValue)
handlePropertyChangeInPlace(h, s, v, propName, propValue) ==
    IF IsRef(v) /\ h[v.a].k = "object"
    THEN [heap |-> [h EXCEPT ![v.a].ents = SpreadWith(@, propName, propValue)], val |-> v]
    ELSE Alloc(h, ObjNode(SpreadWith(objValue(h, v), propName, propValue)))

\* faulty variant: the new object is built from the declared properties only
handlePropertyChangeDeclaredOnly(h, s, v, propName, propValue) ==
    Alloc(h, ObjNode(SpreadWith(
        SelectSeq(objValue(h, v), LAMBDA e : \E d \in Range(entries(s)) : d.name = e.key),
        propName, propValue)))

\* faulty variant: a required property that is absent is written with its
\* synthesized default whenever a sibling is edited
handlePropertyChangeFillRequired(h, s, v, propName, propValue) ==
    LET missing == {d \in {entries(s)[i] : i \in 1..Len(entries(s))} :
                        /\ d.name # propName
                        /\ \E j \in 1..Len(requiredFields(s)) : requiredFields(s)[j] = d.name
                        /\ ~HasKey(objValue(h, v), d.name)}
    IN  IF missing = {}
        THEN Alloc(h, ObjNode(SpreadWith(objValue(h, v), propName, propValue)))
        ELSE LET m == CHOOSE d \in missing : TRUE
                 f == getDefaultValue(m.schema, h)
             IN  Alloc(f.heap, ObjNode(SpreadWith(SpreadWith(objValue(h, v), m.name, f.val),
                                                  propName, propValue)))

\* ObjectField.handlePropertyChange: onChange({ ...objValue, [propName]: propValue })
handlePropertyChange(h, s, v, propName, propValue) ==
    Alloc(h, ObjNode(SpreadWith(objValue(h, v), propName, propValue)))

\* faulty variant: onChange([getDefaultValue(itemSchema), ...arrayValue])
handleAddPrepend(h, s, v) ==
    LET d == getDefaultValue(itemSchema(s), h) IN
        Alloc(d.heap, ArrNode(<<d.val>> \o arrayValue(h, v)))

\* faulty variant: arrayValue.push(getDefaultValue(itemSchema)); onChange(arrayValue)
handleAddInPlace(h, s, v) ==
    LET d == getDefaultValue(itemSchema(s), h) IN
        IF IsArray(h, v)
        THEN [heap |-> [d.heap EXCEPT ![v.a].elems = Append(@, d.val)], val |-> v]
        ELSE Alloc(d.heap, ArrNode(<<d.val>>))

\* ArrayField.handleAdd: onChange([...arrayValue, getDefaultValue(itemSchema)])
handleAdd(h, s, v) ==
    LET d == getDefaultValue(itemSchema(s), h) IN
        Alloc(d.heap, ArrNode(Append(arrayValue(h, v), d.val)))

\* arrayValue.filter((_, i) => i !== index), i counted from 0
RECURSIVE FilterNotIndex(_, _, _)
FilterNotIndex(q, i, index) ==
    IF q = <<>> THEN <<>>
    ELSE (IF i # index THEN <<Head(q)>> ELSE <<>>) \o FilterNotIndex(Tail(q), i + 1, index)

\* faulty variant: the removed position is left behind as undefined
handleRemoveTombstone(h, s, v, index) ==
    Alloc(h, ArrNode([i \in 1..Len(arrayValue(h, v)) |->
                        IF i = index + 1 THEN Undefined ELSE arrayValue(h, v)[i]]))

\* ArrayField.handleRemove
handleRemove(h, s, v, index) ==
    Alloc(h, ArrNode(FilterNotIndex(arrayValue(h, v), 0, index)))

\* newArray[index] = itemValue on a copy: an index past the end leaves holes
\* (undefined) before it
AssignIndex(q, index, val) ==
    [i \in 1..(IF index + 1 > Len(q) THEN index + 1 ELSE Len(q)) |->
        IF i = index + 1 THEN val ELSE IF i <= Len(q) THEN q[i] ELSE Undefined]

\* faulty variant: arrayValue[index] = itemValue; onChange(arrayValue)
handleItemChangeInPlace(h, s, v, index, itemValue) ==
    IF IsArray(h, v)
    THEN [heap |-> [h EXCEPT ![v.a].elems = AssignIndex(@, index, itemValue)], val |-> v]
    ELSE Alloc(h, ArrNode(AssignIndex(arrayValue(h, v), index, itemValue)))

\* faulty variant: newArray.splice(index, 0, itemValue), the item is inserted
handleItemChangeInsert(h, s, v, index, itemValue) ==
    Alloc(h, ArrNode(SubSeq(arrayValue(h, v), 1, index) \o <<itemValue>>
                        \o SubSeq(arrayValue(h, v), index + 1, Len(arrayValue(h, v)))))

\* faulty variant: an item that becomes undefined is taken out of the array
handleItemChangeDrop(h, s, v, index, itemValue) ==
    IF itemValue = Undefined
    THEN Alloc(h, ArrNode(FilterNotIndex(arrayValue(h, v), 0, index)))
    ELSE Alloc(h, ArrNode(AssignIndex(arrayValue(h, v), index, itemValue)))

\* ArrayField.handleItemChange
handleItemChange(h, s, v, index, itemValue) ==
    Alloc(h, ArrNode(AssignIndex(arrayValue(h, v), index, itemValue)))

-----------------------------------------------------------------------------
(* PrimitiveField *)

\* maxLength above which a string is edited in a Textarea
MultilineMaxLength == 200

DigitChars == {"0", "1", "2", "3", "4", "5", "6", "7", "8", "9"}

DigitVal(c) ==
    CASE c = "0" -> 0 [] c = "1" -> 1 [] c = "2" -> 2 [] c = "3" -> 3 [] c = "4" -> 4
      [] c = "5" -> 5 [] c = "6" -> 6 [] c = "7" -> 7 [] c = "8" -> 8 [] c = "9" -> 9

\* the text of an input as its sequence of characters
RECURSIVE SkipWhitespace(_)
SkipWhitespace(cs) ==
    IF cs # <<>> /\ Head(cs) = " " THEN SkipWhitespace(Tail(cs)) ELSE cs

RECURSIVE TakeDigits(_)
TakeDigits(cs) ==
    IF cs # <<>> /\ Head(cs) \in DigitChars THEN <<Head(cs)>> \o TakeDigits(Tail(cs)) ELSE <<>>

RECURSIVE DigitsValue(_)
DigitsValue(ds) ==
    IF ds = <<>> THEN 0 ELSE 10 * DigitsValue(SubSeq(ds, 1, Len(ds) - 1)) + DigitVal(ds[Len(ds)])

Drop(cs, n) == SubSeq(cs, n + 1, Len(cs))

HasSign(cs) == cs # <<>> /\ Head(cs) \in {"+", "-"}
SignOf(cs) == IF cs # <<>> /\ Head(cs) = "-" THEN -1 ELSE 1
Unsigned(cs) == IF HasSign(cs) THEN Tail(cs) ELSE cs

\* parseInt(text, 10): optional sign and the longest run of digits that follows,
\* NaN without a digit
IntOfDigits(sign, ds) == IF ds = <<>> THEN NaN ELSE Num(sign * DigitsValue(ds))

IntOfTrimmed(t) == IntOfDigits(SignOf(t), TakeDigits(Unsigned(t)))

parseInt(cs) == IntOfTrimmed(SkipWhitespace(cs))

\* m * 10^(-k) with trailing zeros of the fraction removed
RECURSIVE Normalize(_, _)
Normalize(m, k) ==
    IF k <= 0 THEN Num(m * Pow10(-k))
    ELSE IF m % 10 = 0 THEN Normalize(m \div 10, k - 1)
    ELSE Dec(m, k)

\* parseFloat(text): the longest prefix that is a decimal literal (sign, digits,
\* fraction, exponent), NaN when there is none.  The stages below read the text
\* left to right: ip the integer digits, fp the fraction digits, then the exponent.
ExponentOfDigits(sign, ed) == IF ed = <<>> THEN 0 ELSE sign * DigitsValue(ed)

ExponentOf(r) ==
    IF r # <<>> /\ Head(r) \in {"e", "E"}
    THEN ExponentOfDigits(SignOf(Tail(r)), TakeDigits(Unsigned(Tail(r))))
    ELSE 0

FloatOfParts(sign, ip, fp, r) ==
    IF ip = <<>> /\ fp = <<>> THEN NaN
    ELSE Normalize(sign * DigitsValue(ip \o fp), Len(fp) - ExponentOf(r))

FloatAfterFraction(sign, ip, fp, r) == FloatOfParts(sign, ip, fp, Drop(r, Len(fp)))

FloatAfterInt(sign, ip, r) ==
    IF r # <<>> /\ Head(r) = "."
    THEN FloatAfterFraction(sign, ip, TakeDigits(Tail(r)), Tail(r))
    ELSE FloatOfParts(sign, ip, <<>>, r)

FloatAfterSign(sign, ip, u) == FloatAfterInt(sign, ip, Drop(u, Len(ip)))

FloatOfTrimmed(t) == FloatAfterSign(SignOf(t), TakeDigits(Unsigned(t)), Unsigned(t))

parseFloat(cs) == FloatOfTrimmed(SkipWhitespace(cs))

isNaN(num) == num.t = "NaN"

hasEnum(s) == Has(s, "enum") /\ Len(s.enum) > 0

isMultiline(s) ==
    \/ Has(s, "format") /\ s.format = "textarea"
    \/ Has(s, "maxLength") /\ s.maxLength # 0 /\ s.maxLength > MultilineMaxLength

\* the control PrimitiveField renders
control(s) ==
    LET type == getSchemaType(s) IN
        IF type = "boolean" THEN "Switch"
        ELSE IF hasEnum(s) THEN "Select"
        ELSE IF type \in {"number", "integer"} THEN "NumberInput"
        ELSE IF isMultiline(s) THEN "Textarea"
        ELSE "TextInput"

\* faulty variant: schema.enum?.find((e) => e === v)
enumFindStrict(s, v) ==
    LET m == {i \in 1..Len(s.enum) : s.enum[i] = Str(v)} IN
        IF m = {} THEN Undefined
        ELSE s.enum[CHOOSE i \in m : \A j \in m : i <= j]

\* faulty variant: the last literal with that string representation
enumFindLast(s, v) ==
    LET m == {i \in 1..Len(s.enum) : String(s.enum[i]) = v} IN
        IF m = {} THEN Undefined
        ELSE s.enum[CHOOSE i \in m : \A j \in m : i >= j]

\* schema.enum?.find((e) => String(e) === v)
enumFind(s, v) ==
    LET m == {i \in 1..Len(s.enum) : String(s.enum[i]) = v} IN
        IF m = {} THEN Undefined
        ELSE s.enum[CHOOSE i \in m : \A j \in m : i <= j]

\* faulty variant: onChange(v), the selected string as it is
onValueChangeRaw(s, v) == Str(v)

\* Select onValueChange: onChange(enumVal ?? v)
onValueChange(s, v) ==
    LET enumVal == enumFind(s, v) IN
        IF enumVal \in {Undefined, Null} THEN Str(v) ELSE enumVal

\* faulty variant: onChange(num), without the isNaN test
numberOnChangeUnchecked(s, chars) ==
    IF getSchemaType(s) = "integer" THEN parseInt(chars) ELSE parseFloat(chars)

\* number Input onChange: onChange(isNaN(num) ? undefined : num)
numberOnChange(s, chars) ==
    LET num == IF getSchemaType(s) = "integer" THEN parseInt(chars) ELSE parseFloat(chars) IN
        IF isNaN(num) THEN Undefined ELSE num

\* faulty variant: onChange(e.target.value || undefined)
textareaOnChangeOrAbsent(text) == IF text = "" THEN Undefined ELSE Str(text)

\* Textarea onChange: onChange(e.target.value)
textareaOnChange(text) == Str(text)

\* faulty variant: onChange(e.target.value)
textOnChangeVerbatim(text) == Str(text)

\* text Input onChange: onChange(e.target.value || undefined)
textOnChange(text) == IF text = "" THEN Undefined ELSE Str(text)

\* the argument of the onChange call a user event on the control causes
PrimitiveOnChange(s, e) ==
    CASE e.ev = "toggle" -> Bool(e.checked)
      [] e.ev = "select" -> onValueChange(s, String(s.enum[e.option]))
      [] e.ev = "number" -> numberOnChange(s, e.chars)
      [] e.ev = "textarea" -> textareaOnChange(e.text)
      [] e.ev = "text" -> textOnChange(e.text)

-----------------------------------------------------------------------------
(* The editor tree: ObjectField, ArrayField and PrimitiveField *)

\* the editor rendered for a property or an item of the given schema
\* (FieldRenderer, CollapsibleSection and the item branch of ArrayField)
ChildEditor(s) ==
    LET type == getSchemaType(s) IN
        IF type = "array" THEN "ArrayField"
        ELSE IF type = "object" THEN "ObjectField"
        ELSE "PrimitiveField"

\* depth prop of an item editor: depth + 1 for a nested ArrayField or ObjectField,
\* depth for a PrimitiveField
ItemDepth(s, depth) == IF ChildEditor(s) = "PrimitiveField" THEN depth ELSE depth + 1

\* depth prop of a property editor: a complex field sits in a CollapsibleSection,
\* which renders its editor with depth + 1
PropertyDepth(s, depth) == IF ChildEditor(s) = "PrimitiveField" THEN depth ELSE depth + 1

\* the editors a render of (schema, value) mounts, each with its props
RECURSIVE Render(_, _, _, _, _, _)
Render(editor, s, v, h, path, depth) ==
    LET self == [editor |-> editor, schema |-> s, value |-> v, path |-> path, depth |-> depth] IN
    CASE editor = "ObjectField" ->
            {self} \cup UNION {
                Render(ChildEditor(e.schema), e.schema, Lookup(objValue(h, v), e.name), h,
                       Append(path, Key(e.name)), PropertyDepth(e.schema, depth)) :
                e \in Range(entries(s))}
      [] editor = "ArrayField" ->
            {self} \cup UNION {
                Render(ChildEditor(itemSchema(s)), itemSchema(s), arrayValue(h, v)[i], h,
                       Append(path, Idx(i - 1)), ItemDepth(itemSchema(s), depth)) :
                i \in 1..Len(arrayValue(h, v))}
      [] OTHER -> {self}

\* SchemaForm: {schema.properties && <ObjectField ... path={[]} depth={0} />}
SchemaFormRender(s, v, h) ==
    IF Has(s, "properties") THEN Render("ObjectField", s, v, h, <<>>, 0) ELSE {}

\* what the user can type into a text control, and into a number control
Texts == {"", "hello"}
NumberTexts == {<<>>, <<"4">>, <<"1", ".", "5">>, <<"1", "e", "2">>, <<"-", "3">>, <<"x">>}

\* the user events an editor offers
EditorEvents(ed, h) ==
    CASE ed.editor = "ArrayField" ->
            {[ev |-> "add", path |-> ed.path]}
                \cup {[ev |-> "remove", path |-> ed.path, index |-> i - 1] :
                        i \in 1..Len(arrayValue(h, ed.value))}
      [] ed.editor = "PrimitiveField" ->
            (CASE control(ed.schema) = "Switch" ->
                    {[ev |-> "toggle", path |-> ed.path, checked |-> b] : b \in BOOLEAN}
               [] control(ed.schema) = "Select" ->
                    {[ev |-> "select", path |-> ed.path, option |-> i] :
                        i \in 1..Len(ed.schema.enum)}
               [] control(ed.schema) = "NumberInput" ->
                    {[ev |-> "number", path |-> ed.path, chars |-> c] : c \in NumberTexts}
               [] control(ed.schema) = "Textarea" ->
                    {[ev |-> "textarea", path |-> ed.path, text |-> x] : x \in Texts}
               [] OTHER ->
                    {[ev |-> "text", path |-> ed.path, text |-> x] : x \in Texts})
      [] OTHER -> {}

Events(s, v, h) == UNION {EditorEvents(ed, h) : ed \in SchemaFormRender(s, v, h)}

\* one onChange invocation: the editor that made it, the props it had, the step
\* (property or index) the change came through, and the argument
Call(editor, s, v, path, step, val) ==
    [editor |-> editor, schema |-> s, received |-> v, path |-> path, step |-> step,
     emitted |-> val]

NoStep == [none |-> TRUE]

\* The event e reaches the editor at ed.path through the remaining steps `rest`;
\* the result is the argument the editor passes to its onChange, the heap after
\* the call, and the onChange calls made below and by this editor, leaf first.
RECURSIVE EditorEmit(_, _, _, _, _, _, _)
EditorEmit(editor, s, v, h, path, rest, e) ==
    CASE editor = "ObjectField" ->
            LET propName == Head(rest).key
                propSchema == (CHOOSE d \in Range(entries(s)) : d.name = propName).schema
                sub == EditorEmit(ChildEditor(propSchema), propSchema,
                                  Lookup(objValue(h, v), propName), h,
                                  Append(path, Head(rest)), Tail(rest), e)
                r == handlePropertyChange(sub.heap, s, v, propName, sub.val)
            IN  [heap |-> r.heap, val |-> r.val,
                 calls |-> Append(sub.calls, Call(editor, s, v, path, Head(rest), r.val))]
      [] editor = "ArrayField" /\ rest = <<>> ->
            LET r == IF e.ev = "add" THEN handleAdd(h, s, v)
                     ELSE handleRemove(h, s, v, e.index)
            IN  [heap |-> r.heap, val |-> r.val,
                 calls |-> <<Call(editor, s, v, path, NoStep, r.val)>>]
      [] editor = "ArrayField" /\ rest # <<>> ->
            LET index == Head(rest).idx
                sub == EditorEmit(ChildEditor(itemSchema(s)), itemSchema(s),
                                  arrayValue(h, v)[index + 1], h,
                                  Append(path, Head(rest)), Tail(rest), e)
                r == handleItemChange(sub.heap, s, v, index, sub.val)
            IN  [heap |-> r.heap, val |-> r.val,
                 calls |-> Append(sub.calls, Call(editor, s, v, path, Head(rest), r.val))]
      [] OTHER ->
            LET val == PrimitiveOnChange(s, e) IN
                [heap |-> h, val |-> val,
                 calls |-> <<Call(editor, s, v, path, NoStep, val)>>]

-----------------------------------------------------------------------------
(* The schema nodes and containers the helper functions are applied to *)

\* containers that exist before any editing: the objects schema defaults refer to
SchemaHeap == << ObjNode(<<Ent("a", Num(1))>>), ArrNode(<<Bool(TRUE)>>) >>
DefaultObject == Ref(1)
DefaultArray == Ref(2)

Kinds == {"object", "array", "string", "number", "integer", "boolean", "null"}

NoField == [x \in {} |-> x]

TypeOpts ==
    {NoField}
        \cup {("type" :> ScalarType(k)) : k \in Kinds}
        \cup {("type" :> ListType(l)) :
                l \in {<<>>, <<"array", "null">>, <<"null", "string">>, <<"integer", "string">>}}

StringProp == [type |-> ScalarType("string")]
BooleanProp == [type |-> ScalarType("boolean")]
ArrayProp == [type |-> ScalarType("array"), items |-> [type |-> ScalarType("string")]]
ObjectProp == [properties |-> <<[name |-> "x", schema |-> [type |-> ScalarType("number")]]>>]
PropSchemas == {StringProp, BooleanProp, ArrayProp, ObjectProp}

PropNames == {"name", "tags", "enabled", "zone"}

\* the sequences of at most n distinct property names
NameSeqs(n) ==
    UNION {{q \in [1..m -> PropNames] : \A i, j \in 1..m : i # j => q[i] # q[j]} : m \in 0..n}

PropLists ==
    UNION {{[i \in 1..Len(q) |-> [name |-> q[i], schema |-> f[i]]] :
                f \in [1..Len(q) -> PropSchemas]} : q \in NameSeqs(MaxProps)}

PropertiesOpts ==
    {NoField, ("properties" :> <<>>),
     ("properties" :> <<[name |-> "name", schema |-> StringProp]>>)}

ItemsOpts == {NoField, ("items" :> StringProp)}

EnumOpts ==
    {NoField, ("enum" :> <<>>), ("enum" :> <<Num(1), Num(2), Num(3)>>),
     ("enum" :> <<Num(1), Str("1"), Bool(FALSE), Str("1")>>)}

\* the strings a Select can hand to onValueChange
SelectStrings == {"1", "2", "false", "x", ""}

DefaultOpts ==
    {NoField}
        \cup {("default" :> d) :
                d \in {Bool(FALSE), Num(0), Str(""), Null, Str("x"), Num(7), Bool(TRUE),
                       DefaultObject, DefaultArray}}

SchemaNodes ==
    {t @@ p @@ i @@ e @@ d :
        t \in TypeOpts, p \in PropertiesOpts, i \in ItemsOpts, e \in EnumOpts, d \in DefaultOpts}

ObjectNodes == {("properties" :> pl) : pl \in PropLists}

FnInputs == SchemaNodes \cup ObjectNodes

NoNode == NoField
NoCall == [op |-> "none"]
NoEvent == [ev |-> "none"]

-----------------------------------------------------------------------------
(* Applying the helper functions to a schema node *)

FnInit ==
    /\ heap = SchemaHeap
    /\ schema = NoNode
    /\ root = Undefined
    /\ root0 = Undefined
    /\ event = NoEvent
    /\ calls = <<>>
    /\ nEdits = 0
    /\ fnNode \in FnInputs
    /\ fnOut = NoCall
    /\ page = [mounted |-> FALSE]
    /\ server = [reachable |-> FALSE]
    /\ net = {}
    /\ peer = Undefined
    /\ view = <<>>

FnResolve ==
    /\ fnOut = NoCall
    /\ fnOut' = [op |-> "getSchemaType", type |-> getSchemaType(fnNode)]
    /\ UNCHANGED <<heap, schema, root, root0, event, calls, nEdits, fnNode>>
    /\ UNCHANGED <<page, server, net, peer, view>>

FnClassify ==
    /\ fnOut = NoCall
    /\ Has(fnNode, "properties")
    /\ fnOut' = [op |-> "ObjectField",
                 simple |-> Names(simpleFields(fnNode)),
                 complex |-> Names(complexFields(fnNode))]
    /\ UNCHANGED <<heap, schema, root, root0, event, calls, nEdits, fnNode>>
    /\ UNCHANGED <<page, server, net, peer, view>>

FnSynthesize ==
    /\ fnOut = NoCall
    /\ LET r == getDefaultValue(fnNode, heap) IN
        /\ heap' = r.heap
        /\ fnOut' = [op |-> "getDefaultValue", val |-> r.val]
    /\ UNCHANGED <<schema, root, root0, event, calls, nEdits, fnNode>>
    /\ UNCHANGED <<page, server, net, peer, view>>

\* Select onValueChange with the string v
FnSelect ==
    /\ fnOut = NoCall
    /\ hasEnum(fnNode)
    /\ \E v \in SelectStrings :
        fnOut' = [op |-> "onValueChange", v |-> v, val |-> onValueChange(fnNode, v)]
    /\ UNCHANGED <<heap, schema, root, root0, event, calls, nEdits, fnNode>>
    /\ UNCHANGED <<page, server, net, peer, view>>

FnNext == FnResolve \/ FnClassify \/ FnSynthesize \/ FnSelect

SpecFn == FnInit /\ [][FnNext]_vars

-----------------------------------------------------------------------------
(* An editing session: SchemaForm over a schema and a value the caller holds *)

Prop(n, s) == [name |-> n, schema |-> s]

SchemaA ==
    [properties |-> <<
        Prop("name", StringProp),
        Prop("level", [enum |-> <<Num(1), Str("1"), Bool(FALSE)>>]),
        Prop("on", BooleanProp),
        Prop("n", [type |-> ScalarType("integer")]),
        Prop("tags", [type |-> ScalarType("array")]) >>]

SchemaB ==
    [properties |-> <<
        Prop("sub", [properties |-> <<
            Prop("x", [type |-> ScalarType("string"), format |-> "textarea"]),
            Prop("rows", [type |-> ListType(<<"array", "null">>),
                          items |-> [type |-> ScalarType("object"),
                                     properties |-> <<
                                        Prop("a", [type |-> ScalarType("number")]),
                                        Prop("b", StringProp) >>]]) >>]),
        Prop("grid", [items |-> [type |-> ScalarType("array"),
                                 items |-> BooleanProp,
                                 default |-> DefaultArray]]) >>,
     required |-> <<"sub">>]

\* primitive fields of every kind, with and without enum, and required properties
SchemaC ==
    [properties |-> <<
        Prop("flag", [type |-> ScalarType("boolean"), enum |-> <<Bool(TRUE)>>]),
        Prop("size", [type |-> ScalarType("integer"), enum |-> <<Num(1), Num(2)>>]),
        Prop("ratio", [type |-> ScalarType("number")]),
        Prop("title", [type |-> ScalarType("string"), maxLength |-> 200]),
        Prop("notes", [type |-> ScalarType("string"), maxLength |-> 201]),
        Prop("mode", [type |-> ScalarType("string"), enum |-> <<Str("a"), Str("b")>>]),
        Prop("opts", [properties |-> <<Prop("k", StringProp)>>, required |-> <<"k">>]) >>,
     required |-> <<"title", "ratio", "opts">>]

\* arrays of numbers and of strings
SchemaE ==
    [properties |-> <<
        Prop("nums", [type |-> ScalarType("array"), items |-> [type |-> ScalarType("number")]]),
        Prop("words", ArrayProp) >>]

\* the values a session starts from: a heap holding the schema's containers and the
\* value's, and the root value
Sessions ==
    { \* declared and undeclared keys, a nested undeclared object, an array of strings
      [schema |-> SchemaA,
       heap |-> SchemaHeap \o <<
           ObjNode(<<Ent("deep", Num(1))>>),
           ArrNode(<<Str("x"), Str("y")>>),
           ObjNode(<<Ent("name", Str("a")), Ent("extra", Ref(3)), Ent("tags", Ref(4)),
                     Ent("level", Num(1))>>) >>,
       root |-> Ref(5)],
      \* null where an array is declared, most properties absent
      [schema |-> SchemaA,
       heap |-> SchemaHeap \o << ObjNode(<<Ent("tags", Null), Ent("extra", Num(7))>>) >>,
       root |-> Ref(3)],
      \* an object where an array is declared, a number where a string is declared
      [schema |-> SchemaA,
       heap |-> SchemaHeap \o <<
           ObjNode(<<Ent("k", Num(1))>>),
           ObjNode(<<Ent("tags", Ref(3)), Ent("name", Num(5)), Ent("extra", Str("e"))>>) >>,
       root |-> Ref(4)],
      \* nested objects and arrays with undeclared keys at every level
      [schema |-> SchemaB,
       heap |-> SchemaHeap \o <<
           ObjNode(<<Ent("a", Num(1)), Ent("z", Bool(TRUE))>>),
           ObjNode(<<Ent("b", Str("t"))>>),
           ArrNode(<<Ref(3), Ref(4)>>),
           ObjNode(<<Ent("x", Str("q")), Ent("unk", Num(5)), Ent("rows", Ref(5))>>),
           ArrNode(<<Bool(TRUE)>>),
           ArrNode(<<Ref(7)>>),
           ObjNode(<<Ent("v", Num(1))>>),
           ObjNode(<<Ent("sub", Ref(6)), Ent("grid", Ref(8)), Ent("meta", Ref(9))>>) >>,
       root |-> Ref(10)],
      \* a scalar where an object is declared and where an array is declared
      [schema |-> SchemaB,
       heap |-> SchemaHeap \o <<
           ObjNode(<<Ent("sub", Str("scalar")), Ent("grid", Num(3)), Ent("meta", Num(1))>>) >>,
       root |-> Ref(3)],
      \* an array where an object is declared, an object where an array is declared
      [schema |-> SchemaB,
       heap |-> SchemaHeap \o <<
           ArrNode(<<Str("e")>>),
           ObjNode(<<Ent("k", Num(1))>>),
           ObjNode(<<Ent("sub", Ref(3)), Ent("grid", Ref(4))>>) >>,
       root |-> Ref(5)],
      \* arrays nested deeper than the schema declares
      [schema |-> SchemaA,
       heap |-> SchemaHeap \o <<
           ArrNode(<<Str("deep")>>),
           ArrNode(<<Ref(3)>>),
           ArrNode(<<Ref(4), Str("y")>>),
           ObjNode(<<Ent("tags", Ref(5)), Ent("name", Str("a"))>>) >>,
       root |-> Ref(6)],
      \* an array of numbers and an array of strings
      [schema |-> SchemaE,
       heap |-> SchemaHeap \o <<
           ArrNode(<<Num(1), Num(2)>>),
           ArrNode(<<Str("a")>>),
           ObjNode(<<Ent("nums", Ref(3)), Ent("words", Ref(4))>>) >>,
       root |-> Ref(5)],
      \* every declared property absent, the required ones included
      [schema |-> SchemaC,
       heap |-> SchemaHeap \o << ObjNode(<<>>) >>,
       root |-> Ref(3)],
      \* some primitive properties present, one undeclared key
      [schema |-> SchemaC,
       heap |-> SchemaHeap \o <<
           ObjNode(<<Ent("size", Num(2)), Ent("title", Str("t")), Ent("secret", Num(1)),
                     Ent("flag", Bool(TRUE))>>) >>,
       root |-> Ref(3)] }

Init ==
    /\ \E ses \in Sessions :
        /\ schema = ses.schema
        /\ heap = ses.heap
        /\ root = ses.root
        /\ root0 = ses.root
    /\ event = NoEvent
    /\ calls = <<>>
    /\ nEdits = 0
    /\ fnNode = NoNode
    /\ fnOut = NoCall
    /\ page = [mounted |-> FALSE]
    /\ server = [reachable |-> FALSE]
    /\ net = {}
    /\ peer = Undefined
    /\ view = <<>>

\* The user event e is dispatched to its editor; the onChange calls run up to
\* SchemaForm's onChange, with which the caller replaces the value it holds.
Dispatch(e) ==
    LET r == EditorEmit("ObjectField", schema, root, heap, <<>>, e.path, e) IN
        /\ heap' = r.heap
        /\ root' = r.val
        /\ calls' = r.calls
        /\ event' = e @@ [heapLen |-> Len(heap), rootBefore |-> root]
        /\ nEdits' = nEdits + 1
        /\ UNCHANGED <<schema, root0, fnNode, fnOut, peer, view, page, server, net>>

EventsOf(kind) == {e \in Events(schema, root, heap) : e.ev = kind}

\* the session is followed for MaxEdits user events
Editing == nEdits < MaxEdits

\* Switch onCheckedChange
Toggle == Editing /\ \E e \in EventsOf("toggle") : Dispatch(e)

\* Select onValueChange
SelectOption == Editing /\ \E e \in EventsOf("select") : Dispatch(e)

\* number Input onChange
TypeNumber == Editing /\ \E e \in EventsOf("number") : Dispatch(e)

\* Textarea onChange
TypeTextarea == Editing /\ \E e \in EventsOf("textarea") : Dispatch(e)

\* text Input onChange
TypeText == Editing /\ \E e \in EventsOf("text") : Dispatch(e)

\* "Add Item" button
AddItem == Editing /\ \E e \in EventsOf("add") : Dispatch(e)

\* item trash button
RemoveItem == Editing /\ \E e \in EventsOf("remove") : Dispatch(e)

Next ==
    \/ Toggle
    \/ SelectOption
    \/ TypeNumber
    \/ TypeTextarea
    \/ TypeText
    \/ AddItem
    \/ RemoveItem

Spec == Init /\ [][Next]_vars

-----------------------------------------------------------------------------
(* Two editing sessions: two SchemaForms over the same schema, each with its own
   value and its own onChange *)

\* the two values the sessions start from, in one heap with the schema's defaults
TwoSessions ==
    { \* the two roots share the array under "grid", which holds the schema's
      \* default item, the array the schema's default refers to
      [schema |-> SchemaB,
       heap |-> SchemaHeap \o <<
           ArrNode(<<DefaultArray>>),
           ObjNode(<<Ent("x", Str("q"))>>),
           ObjNode(<<Ent("sub", Ref(4)), Ent("grid", Ref(3))>>),
           ObjNode(<<Ent("grid", Ref(3)), Ent("meta", Num(1))>>) >>,
       root |-> Ref(5), peer |-> Ref(6)],
      \* two values with no container in common
      [schema |-> SchemaB,
       heap |-> SchemaHeap \o <<
           ArrNode(<<>>),
           ObjNode(<<Ent("grid", Ref(3))>>),
           ObjNode(<<>>) >>,
       root |-> Ref(4), peer |-> Ref(5)] }

InitTwo ==
    /\ \E ses \in TwoSessions :
        /\ schema = ses.schema
        /\ heap = ses.heap
        /\ root = ses.root
        /\ root0 = ses.root
        /\ peer = ses.peer
    /\ event = NoEvent
    /\ calls = <<>>
    /\ nEdits = 0
    /\ fnNode = NoNode
    /\ fnOut = NoCall
    /\ page = [mounted |-> FALSE]
    /\ server = [reachable |-> FALSE]
    /\ net = {}
    /\ view = <<>>

\* a user event in the first form
EditFirst == Editing /\ \E e \in Events(schema, root, heap) : Dispatch(e)

\* a user event in the second form: its onChange replaces the second value
EditPeer ==
    /\ Editing
    /\ \E e \in Events(schema, peer, heap) :
        \E r \in {EditorEmit("ObjectField", schema, peer, heap, <<>>, e.path, e)} :
            /\ heap' = r.heap
            /\ peer' = r.val
            /\ calls' = r.calls
            /\ event' = e @@ [heapLen |-> Len(heap), rootBefore |-> peer, form |-> 2]
    /\ nEdits' = nEdits + 1
    /\ UNCHANGED <<schema, root, root0, fnNode, fnOut, page, server, net, view>>

SpecTwo == InitTwo /\ [][EditFirst \/ EditPeer]_vars

-----------------------------------------------------------------------------
(* CollapsibleSection: the expand flag of the sections around object and array
   properties *)

\* sections on three levels, and sections inside the items of an array
SchemaD ==
    [properties |-> <<
        Prop("a", [type |-> ScalarType("object"), properties |-> <<
            Prop("b", [type |-> ScalarType("object"), properties |-> <<
                Prop("c", [properties |-> <<Prop("leaf", StringProp)>>]),
                Prop("on", BooleanProp) >>]) >>]),
        Prop("rows", [type |-> ScalarType("array"),
                      items |-> [type |-> ScalarType("object"), properties |-> <<
                          Prop("inner", [properties |-> <<Prop("z", StringProp)>>]) >>]]) >>]

ViewSessions ==
    { [schema |-> SchemaD,
       heap |-> SchemaHeap \o <<
           ObjNode(<<Ent("leaf", Str("v"))>>),
           ObjNode(<<Ent("c", Ref(3)), Ent("on", Bool(TRUE))>>),
           ObjNode(<<Ent("b", Ref(4))>>),
           ObjNode(<<Ent("z", Str("q"))>>),
           ObjNode(<<Ent("inner", Ref(6))>>),
           ArrNode(<<Ref(7)>>),
           ObjNode(<<Ent("a", Ref(5)), Ent("rows", Ref(8))>>) >>,
       root |-> Ref(9)],
      [schema |-> SchemaD,
       heap |-> SchemaHeap \o << ObjNode(<<>>) >>,
       root |-> Ref(3)] }

\* faulty variant: useState(depth >= 2)
initiallyOpenDeep(depth) == depth >= 2

\* const [isOpen, setIsOpen] = useState(depth < 2)
initiallyOpen(depth) == depth < 2

\* the CollapsibleSections of the editor tree: one around the editor of every object
\* or array property, with the depth prop of the ObjectField that renders it (its
\* editor gets depth + 1)
Sections(s, v, h) ==
    {[path |-> ed.path, depth |-> ed.depth - 1] :
        ed \in {x \in SchemaFormRender(s, v, h) :
                    /\ x.editor # "PrimitiveField"
                    /\ x.path # <<>>
                    /\ "key" \in DOMAIN x.path[Len(x.path)]}}

\* the path q leads to the path p; strictly: q is not p
Leads(q, p) == Len(q) <= Len(p) /\ SubSeq(p, 1, Len(q)) = q
LeadsStrictly(q, p) == Len(q) < Len(p) /\ SubSeq(p, 1, Len(q)) = q

\* The state of the sections after a render: a section keeps its state while it
\* stays mounted (components are keyed by property name and item index); one that
\* is new, or inside a section that is closed (CollapsibleContent unmounts what it
\* holds), has the state useState gives it when it mounts.
Mount(vw, secs) ==
    [p \in {sec.path : sec \in secs} |->
        IF p \in DOMAIN vw /\ \A q \in DOMAIN vw : LeadsStrictly(q, p) => vw[q].isOpen
        THEN vw[p]
        ELSE [isOpen |-> initiallyOpen((CHOOSE sec \in secs : sec.path = p).depth),
              depth |-> (CHOOSE sec \in secs : sec.path = p).depth,
              toggled |-> FALSE]]

\* the section at p is on screen: every section around it is open
SectionMounted(vw, p) == \A q \in DOMAIN vw : LeadsStrictly(q, p) => vw[q].isOpen

\* the editor at p is on screen: its own section and every section around it is open
EditorMounted(vw, p) == \A q \in DOMAIN vw : Leads(q, p) => vw[q].isOpen

InitView ==
    /\ \E ses \in ViewSessions :
        /\ schema = ses.schema
        /\ heap = ses.heap
        /\ root = ses.root
        /\ root0 = ses.root
        /\ view = Mount(<<>>, Sections(ses.schema, ses.root, ses.heap))
    /\ event = NoEvent
    /\ calls = <<>>
    /\ nEdits = 0
    /\ fnNode = NoNode
    /\ fnOut = NoCall
    /\ page = [mounted |-> FALSE]
    /\ server = [reachable |-> FALSE]
    /\ net = {}
    /\ peer = Undefined

\* a click on the header of a section: onOpenChange={setIsOpen}
ToggleSection ==
    /\ \E p \in DOMAIN view :
        /\ SectionMounted(view, p)
        /\ view' = Mount([view EXCEPT ![p] = [@ EXCEPT !.isOpen = ~@, !.toggled = TRUE]],
                         Sections(schema, root, heap))
        /\ event' = [ev |-> "section", path |-> p, heapLen |-> Len(heap), rootBefore |-> root]
    /\ calls' = <<>>
    /\ UNCHANGED <<heap, schema, root, root0, nEdits, fnNode, fnOut, page, server, net, peer>>

\* a user event in an editor that is on screen
EditVisible ==
    /\ Editing
    /\ \E e \in {x \in Events(schema, root, heap) : EditorMounted(view, x.path)} :
        \E r \in {EditorEmit("ObjectField", schema, root, heap, <<>>, e.path, e)} :
            /\ heap' = r.heap
            /\ root' = r.val
            /\ calls' = r.calls
            /\ event' = e @@ [heapLen |-> Len(heap), rootBefore |-> root]
            /\ view' = Mount(view, Sections(schema, r.val, r.heap))
    /\ nEdits' = nEdits + 1
    /\ UNCHANGED <<schema, root0, fnNode, fnOut, page, server, net, peer>>

SpecView == InitView /\ [][ToggleSection \/ EditVisible]_vars

-----------------------------------------------------------------------------
(* JSON on the wire (src/src/lib/api.ts): JSON.stringify on the way out,
   response.json() on the way in *)

JObject(ents) == [k |-> "object", ents |-> ents]
JArray(elems) == [k |-> "array", elems |-> elems]

IsJContainer(j) == "k" \in DOMAIN j

\* JSON.stringify(v): the own properties in order, a property whose value is
\* undefined left out, undefined and NaN inside an array written as null
RECURSIVE stringify(_, _)
stringify(h, v) ==
    IF ~IsRef(v) THEN (IF v \in {Undefined, NaN} THEN Null ELSE v)
    ELSE IF h[v.a].k = "array"
    THEN JArray([i \in 1..Len(h[v.a].elems) |-> stringify(h, h[v.a].elems[i])])
    ELSE JObject([i \in 1..Len(SelectSeq(h[v.a].ents, LAMBDA e : e.val # Undefined)) |->
                    Ent(SelectSeq(h[v.a].ents, LAMBDA e : e.val # Undefined)[i].key,
                        stringify(h, SelectSeq(h[v.a].ents, LAMBDA e : e.val # Undefined)[i].val))])

\* the properties of a JSON container, an array's under its indices
JEntries(j) ==
    IF j.k = "object" THEN j.ents
    ELSE [i \in 1..Len(j.elems) |-> Ent(ToString(i - 1), j.elems[i])]

\* the value in the heap is a container of the JSON container's kind
SameKind(h, a, j) == IsRef(a) /\ h[a.a].k = j.k

ItemsOf(h, a, j) == IF SameKind(h, a, j) THEN OwnEntries(h, a) ELSE <<>>

NodeOf(j, ents) ==
    IF j.k = "object" THEN ObjNode(ents) ELSE ArrNode([i \in 1..Len(ents) |-> ents[i].val])

\* every item built for the new data is the item the previous data has there
AllItemsKept(aItems, ents) ==
    /\ Len(aItems) = Len(ents)
    /\ \A i \in 1..Len(ents) :
        HasKey(aItems, ents[i].key) /\ Lookup(aItems, ents[i].key) = ents[i].val

\* The data a query holds after a fetch: response.json() builds the value j, and
\* the query keeps of its previous data a every part that is deeply equal to the
\* new one (the query client is created with its default options, under which
\* the result of a fetch is structurally shared with the previous data): a
\* itself when nothing differs, otherwise new containers around the parts kept.
\* (CHOOSE out \in {f(x) : x \in {e}} : TRUE is f(e), with e computed once.)
RECURSIVE replaceEqualDeep(_, _, _)
RECURSIVE ReplaceItems(_, _, _, _)
replaceEqualDeep(h, a, j) ==
    IF ~IsJContainer(j) THEN [heap |-> h, val |-> j]
    ELSE CHOOSE out \in
              { IF SameKind(h, a, j) /\ AllItemsKept(ItemsOf(h, a, j), items.ents)
                THEN [heap |-> h, val |-> a]
                ELSE Alloc(items.heap, NodeOf(j, items.ents))
                : items \in {ReplaceItems(h, ItemsOf(h, a, j), JEntries(j), <<>>)} } : TRUE

\* the items of the new data one after the other, each against the previous
\* data's item of the same key
ReplaceItems(h, aItems, jItems, acc) ==
    IF jItems = <<>> THEN [heap |-> h, ents |-> acc]
    ELSE CHOOSE out \in
              { ReplaceItems(r.heap, aItems, Tail(jItems),
                             Append(acc, Ent(Head(jItems).key, r.val)))
                : r \in {replaceEqualDeep(h, Lookup(aItems, Head(jItems).key),
                                          Head(jItems).val)} } : TRUE

\* if (v): JavaScript truthiness
Truthy(v) ==
    CASE v.t = "ref" -> TRUE
      [] v.t = "string" -> v.s # ""
      [] v.t = "number" -> v.n # 0
      [] v.t = "boolean" -> v.b
      [] OTHER -> FALSE

-----------------------------------------------------------------------------
(* The API client (src/src/lib/api.ts) *)

\* a route parameter that is not in the URL (useParams gives undefined)
NoParam == "<undefined>"

ParamTruthy(param) == param # NoParam /\ param # ""

TenantId == "t1"
ModulePath == "m1"
SubscriptionIds == {NoParam, "s1"}

\* a request as ApiClient.request sends it: config is the argument the caller
\* passed (undefined when the call has none), body what is written on the wire
Request(id, method, endpoint, config, body) ==
    [id |-> id, stage |-> "request", method |-> method, endpoint |-> endpoint,
     config |-> config, body |-> body, status |-> 0]

\* the answer to a request: HTTP status and JSON body
Response(req, status, body) ==
    [req EXCEPT !.stage = "response", !.status = status, !.body = body]

tenantModuleEndpoint(tenantId, modulePath) ==
    <<"tenants", tenantId, "modules", modulePath>>

subscriptionModuleEndpoint(tenantId, subscriptionId, modulePath) ==
    <<"tenants", tenantId, "subscriptions", subscriptionId, "modules", modulePath>>

getTenantModuleConfig(id, tenantId, modulePath) ==
    Request(id, "GET", tenantModuleEndpoint(tenantId, modulePath), Undefined, Null)

setTenantModuleConfig(id, h, tenantId, modulePath, config) ==
    Request(id, "PUT", tenantModuleEndpoint(tenantId, modulePath), config, stringify(h, config))

deleteTenantModuleConfig(id, tenantId, modulePath) ==
    Request(id, "DELETE", tenantModuleEndpoint(tenantId, modulePath), Undefined, Null)

getSubscriptionModuleConfig(id, tenantId, subscriptionId, modulePath) ==
    Request(id, "GET", subscriptionModuleEndpoint(tenantId, subscriptionId, modulePath),
            Undefined, Null)

setSubscriptionModuleConfig(id, h, tenantId, subscriptionId, modulePath, config) ==
    Request(id, "PUT", subscriptionModuleEndpoint(tenantId, subscriptionId, modulePath),
            config, stringify(h, config))

deleteSubscriptionModuleConfig(id, tenantId, subscriptionId, modulePath) ==
    Request(id, "DELETE", subscriptionModuleEndpoint(tenantId, subscriptionId, modulePath),
            Undefined, Null)

\* response.ok
ResponseOk(m) == m.status \in 200..299

-----------------------------------------------------------------------------
(* The backend, as far as the page sees it: per module it holds an override or
   none, answers GET with the composed configuration and where it comes from,
   stores the body of a PUT as the override, and removes the override on DELETE
   (with 404 when there is none); a PUT or DELETE may fail and change nothing *)

ServerDefault == JObject(<<Ent("name", Str("a")), Ent("on", Bool(FALSE))>>)
StoredOverride == JObject(<<Ent("name", Str("b")), Ent("on", Bool(TRUE))>>)

Servers == {[hasOverride |-> FALSE, override |-> Null],
            [hasOverride |-> TRUE, override |-> StoredOverride]}

\* the composed configuration: the override when there is one, the defaults otherwise
Composed(srv) == IF srv.hasOverride THEN srv.override ELSE ServerDefault

\* sources names the override of the scope the endpoint addresses
OverrideFlag(endpoint) ==
    IF Len(endpoint) > Len(tenantModuleEndpoint(TenantId, ModulePath))
    THEN "subscriptionOverride" ELSE "tenantOverride"

\* ModuleConfigData: { composed, sources }
ModuleConfigData(srv, endpoint) ==
    JObject(<<Ent("composed", Composed(srv)),
              Ent("sources", JObject(<<Ent(OverrideFlag(endpoint), Bool(srv.hasOverride))>>))>>)

\* the backend's state after a request and its answer
ServerAnswer(srv, m) ==
    CASE m.method = "GET" ->
            [server |-> srv, response |-> Response(m, 200, ModuleConfigData(srv, m.endpoint))]
      [] m.method = "PUT" ->
            [server |-> [hasOverride |-> TRUE, override |-> m.body],
             response |-> Response(m, 200, JObject(<<Ent("status", Str("ok"))>>))]
      [] m.method = "DELETE" ->
            IF srv.hasOverride
            THEN [server |-> [hasOverride |-> FALSE, override |-> Null],
                  response |-> Response(m, 200, JObject(<<Ent("status", Str("deleted"))>>))]
            ELSE [server |-> srv,
                  response |-> Response(m, 404, JObject(<<Ent("detail", Str("Not found"))>>))]

\* the answer to a request the backend fails to carry out: response.ok is false,
\* and request throws ApiError(data.detail, response.status, data)
ServerError(m) == Response(m, 500, JObject(<<Ent("detail", Str("Internal error"))>>))

-----------------------------------------------------------------------------
(* ModuleEditorPage (src/src/pages/ModulesPage.tsx) *)

\* the schema of the module the page edits (moduleInfo.schema, already loaded)
SchemaP ==
    [type |-> ScalarType("object"),
     properties |-> << Prop("name", StringProp), Prop("on", BooleanProp) >>]

\* configData?.composed
composedOf(h, data) == IF IsRef(data) THEN Lookup(objValue(h, data), "composed") ELSE Undefined

\* the config query is fetching and has no data yet (configLoading)
configLoading(pg) == pg.fetchId # 0 /\ pg.configData = Undefined

\* queryFn of the config query
configQueryFn(id, subscriptionId) ==
    IF ParamTruthy(subscriptionId)
    THEN getSubscriptionModuleConfig(id, TenantId, subscriptionId, ModulePath)
    ELSE getTenantModuleConfig(id, TenantId, ModulePath)

\* faulty variant: the configuration is always sent to the tenant endpoint
saveMutationFnTenantOnly(id, h, subscriptionId, config) ==
    setTenantModuleConfig(id, h, TenantId, ModulePath, config)

\* mutationFn of saveMutation
saveMutationFn(id, h, subscriptionId, config) ==
    IF ParamTruthy(subscriptionId)
    THEN setSubscriptionModuleConfig(id, h, TenantId, subscriptionId, ModulePath, config)
    ELSE setTenantModuleConfig(id, h, TenantId, ModulePath, config)

\* mutationFn of resetMutation
resetMutationFn(id, subscriptionId) ==
    IF ParamTruthy(subscriptionId)
    THEN deleteSubscriptionModuleConfig(id, TenantId, subscriptionId, ModulePath)
    ELSE deleteTenantModuleConfig(id, TenantId, ModulePath)

\* queryClient.invalidateQueries({ queryKey: ["moduleConfig", ...] }): the query is
\* mounted, so it is fetched again.  A fetch in flight is abandoned for the new
\* one (its answer will be ignored) when the query has data; while the first
\* fetch is still in flight it is kept and no new one is started.
invalidateModuleConfig(pg, nt) ==
    IF configLoading(pg) THEN [page |-> pg, net |-> nt]
    ELSE [page |-> [pg EXCEPT !.nReq = @ + 1, !.fetchId = pg.nReq + 1],
          net |-> nt \cup {configQueryFn(pg.nReq + 1, pg.subscriptionId)}]

\* faulty variant: the form value is set from the first configuration only
effectConfigDataOnce(h, before, data, formValue) ==
    IF formValue = Null /\ data # before /\ Truthy(composedOf(h, data))
    THEN composedOf(h, data) ELSE formValue

\* useEffect(() => { if (configData?.composed) setFormValue(configData.composed) },
\* [configData]): runs when configData is another value than at the last render
effectConfigData(h, before, data, formValue) ==
    IF data # before /\ Truthy(composedOf(h, data)) THEN composedOf(h, data) ELSE formValue

\* what a step of the page records in `event`
PageEvent(kind) == [ev |-> kind, heapLen |-> Len(heap), rootBefore |-> root]

\* the page is mounted: no form value yet, the config query has sent its first fetch
PageInit ==
    /\ heap = <<>>
    /\ schema = SchemaP
    /\ root = Null
    /\ root0 = Null
    /\ event = NoEvent
    /\ calls = <<>>
    /\ nEdits = 0
    /\ fnNode = NoNode
    /\ fnOut = NoCall
    /\ \E sub \in SubscriptionIds :
        /\ page = [subscriptionId |-> sub, configData |-> Undefined, fetchId |-> 1,
                   save |-> [status |-> "idle", id |-> 0],
                   reset |-> [status |-> "idle", id |-> 0],
                   showResetConfirm |-> FALSE, toast |-> "none",
                   nReq |-> 1, nSaves |-> 0, nResets |-> 0]
        /\ net = {configQueryFn(1, sub)}
    /\ server \in Servers
    /\ peer = Undefined
    /\ view = <<>>

\* an edit in the form: <SchemaForm value={formValue ?? {}} onChange={setFormValue} />,
\* rendered once the configuration has loaded; the open dialog is modal
EditForm ==
    /\ Editing
    /\ ~configLoading(page)
    /\ ~page.showResetConfirm
    /\ IsRef(root)
    /\ \E e \in Events(schema, root, heap) : Dispatch(e)

\* faulty variant: disabled={!formValue}
saveEnabledWhilePending == Truthy(root)

\* the Save button is enabled
saveEnabled == ~(page.save.status = "pending") /\ Truthy(root)

\* handleSave: if (formValue) saveMutation.mutate(formValue)
handleSave ==
    /\ ~page.showResetConfirm
    /\ saveEnabled
    /\ Truthy(root)
    /\ net' = net \cup {saveMutationFn(page.nReq + 1, heap, page.subscriptionId, root)}
    /\ page' = [page EXCEPT !.nReq = @ + 1, !.nSaves = @ + 1,
                            !.save = [status |-> "pending", id |-> page.nReq + 1]]
    /\ event' = PageEvent("save")
    /\ UNCHANGED <<heap, schema, root, root0, calls, nEdits, fnNode, fnOut, peer, view, server>>

\* a click on "Save Configuration"
ClickSave == page.nSaves < MaxSaves /\ handleSave

\* "Reset to Defaults": setShowResetConfirm(true)
OpenResetConfirm ==
    /\ ~page.showResetConfirm
    /\ page' = [page EXCEPT !.showResetConfirm = TRUE]
    /\ event' = PageEvent("openReset")
    /\ UNCHANGED <<heap, schema, root, root0, calls, nEdits, fnNode, fnOut, peer, view, server, net>>

\* "Cancel" in the dialog: onOpenChange(false)
CancelResetConfirm ==
    /\ page.showResetConfirm
    /\ page' = [page EXCEPT !.showResetConfirm = FALSE]
    /\ event' = PageEvent("cancelReset")
    /\ UNCHANGED <<heap, schema, root, root0, calls, nEdits, fnNode, fnOut, peer, view, server, net>>

\* "Reset" in the dialog: resetMutation.mutate(), and the dialog closes
ConfirmReset ==
    /\ page.nResets < MaxResets
    /\ page.showResetConfirm
    /\ net' = net \cup {resetMutationFn(page.nReq + 1, page.subscriptionId)}
    /\ page' = [page EXCEPT !.nReq = @ + 1, !.nResets = @ + 1,
                            !.reset = [status |-> "pending", id |-> page.nReq + 1],
                            !.showResetConfirm = FALSE]
    /\ event' = PageEvent("reset")
    /\ UNCHANGED <<heap, schema, root, root0, calls, nEdits, fnNode, fnOut, peer, view, server>>

\* the backend handles a request
ServerHandles ==
    \E m \in net :
        /\ m.stage = "request"
        /\ server' = ServerAnswer(server, m).server
        /\ net' = (net \ {m}) \cup {ServerAnswer(server, m).response}
        /\ event' = PageEvent("handle")
        /\ UNCHANGED <<heap, schema, root, root0, calls, nEdits, fnNode, fnOut, peer, view, page>>

\* the config query receives the answer to a fetch: ignored when the fetch was
\* abandoned; otherwise configData is the new data, and the effect on configData runs
ReceiveConfig(m) ==
    IF m.id # page.fetchId
    THEN UNCHANGED <<heap, root, page>>
    ELSE \E r \in {replaceEqualDeep(heap, page.configData, m.body)} :
            /\ heap' = r.heap
            /\ page' = [page EXCEPT !.configData = r.val, !.fetchId = 0]
            /\ root' = effectConfigData(r.heap, page.configData, r.val, root)

\* saveMutation onSuccess / onError
saveSettled(pg, m) ==
    [pg EXCEPT !.save.status = IF ResponseOk(m) THEN "success" ELSE "error",
               !.toast = IF ResponseOk(m) THEN "Configuration saved successfully"
                         ELSE "Failed to save"]

ReceiveSave(m) ==
    IF ResponseOk(m)
    THEN /\ page' = invalidateModuleConfig(saveSettled(page, m), net \ {m}).page
         /\ net' = invalidateModuleConfig(saveSettled(page, m), net \ {m}).net
    ELSE /\ page' = saveSettled(page, m)
         /\ net' = net \ {m}

\* faulty variant: onError closes the dialog whatever the status is
resetSettledClosing(pg, m) ==
    [pg EXCEPT !.reset.status = IF m.id # pg.reset.id THEN @
                                ELSE IF ResponseOk(m) THEN "success" ELSE "error",
               !.showResetConfirm = FALSE,
               !.toast = IF ResponseOk(m) THEN "Configuration reset to defaults"
                         ELSE IF m.status = 404 THEN "Already using defaults"
                         ELSE "Failed to reset"]

\* resetMutation onSuccess / onError
resetSettled(pg, m) ==
    [pg EXCEPT !.reset.status = IF m.id # pg.reset.id THEN @
                                ELSE IF ResponseOk(m) THEN "success" ELSE "error",
               !.showResetConfirm = IF ResponseOk(m) \/ m.status = 404 THEN FALSE ELSE @,
               !.toast = IF ResponseOk(m) THEN "Configuration reset to defaults"
                         ELSE IF m.status = 404 THEN "Already using defaults"
                         ELSE "Failed to reset"]

ReceiveReset(m) ==
    IF ResponseOk(m)
    THEN /\ page' = invalidateModuleConfig(resetSettled(page, m), net \ {m}).page
         /\ net' = invalidateModuleConfig(resetSettled(page, m), net \ {m}).net
    ELSE /\ page' = resetSettled(page, m)
         /\ net' = net \ {m}

\* a response reaches the page
ClientReceives ==
    \E m \in net :
        /\ m.stage = "response"
        /\ CASE m.method = "GET" -> ReceiveConfig(m) /\ net' = net \ {m}
             [] m.method = "PUT" -> ReceiveSave(m) /\ UNCHANGED <<heap, root>>
             [] m.method = "DELETE" -> ReceiveReset(m) /\ UNCHANGED <<heap, root>>
        /\ event' = [ev |-> "receive", heapLen |-> Len(heap), rootBefore |-> root,
                      method |-> m.method, status |-> m.status,
                      nReq |-> page.nReq, showResetConfirm |-> page.showResetConfirm]
        /\ UNCHANGED <<schema, root0, calls, nEdits, fnNode, fnOut, peer, view, server>>

PageNext ==
    \/ EditForm
    \/ ClickSave
    \/ OpenResetConfirm
    \/ CancelResetConfirm
    \/ ConfirmReset
    \/ ServerHandles
    \/ ClientReceives

SpecPage == PageInit /\ [][PageNext]_vars

\* the backend answers every request and every answer reaches the page
SpecPageFair == SpecPage /\ WF_vars(ServerHandles) /\ WF_vars(ClientReceives)

-----------------------------------------------------------------------------
(* The page with a backend that may fail: a PUT or DELETE is carried out or
   answered with an error, and the user may save again *)

\* the page of a tenant's module
PageInitFailing == PageInit /\ page.subscriptionId = NoParam

EditFormFailing == nEdits < MaxEditsFailing /\ EditForm

ClickSaveFailing == page.nSaves < MaxSaveAttempts /\ handleSave

\* the backend fails to carry out a PUT or DELETE and changes nothing
ServerFails ==
    \E m \in net :
        /\ m.stage = "request"
        /\ m.method \in {"PUT", "DELETE"}
        /\ net' = (net \ {m}) \cup {ServerError(m)}
        /\ event' = PageEvent("fail")
        /\ UNCHANGED <<heap, schema, root, root0, calls, nEdits, fnNode, fnOut, peer, view,
                       page, server>>

PageNextFailing ==
    \/ EditFormFailing
    \/ ClickSaveFailing
    \/ OpenResetConfirm
    \/ CancelResetConfirm
    \/ ConfirmReset
    \/ ServerHandles
    \/ ServerFails
    \/ ClientReceives

SpecPageFailing == PageInitFailing /\ [][PageNextFailing]_vars

-----------------------------------------------------------------------------
(* Claims about the helper functions, checked under SpecFn *)

\* position of a declared property name in the declaration order
DeclPos(s, n) == CHOOSE i \in 1..Len(entries(s)) : entries(s)[i].name = n

InDeclOrder(s, q) == \A i, j \in 1..Len(q) : i < j => DeclPos(s, q[i]) < DeclPos(s, q[j])

Occurrences(q, n) == Cardinality({i \in 1..Len(q) : q[i] = n})

\* C8: the object editor puts every declared property in exactly one of its two
\* groups, in the complex group exactly when the property's resolved kind is
\* object or array, and both groups keep the declaration order.
C8_StablePartition ==
    fnOut.op = "ObjectField" =>
        /\ \A i \in 1..Len(entries(fnNode)) :
            LET e == entries(fnNode)[i] IN
                /\ Occurrences(fnOut.simple \o fnOut.complex, e.name) = 1
                /\ Occurrences(fnOut.complex, e.name) = 1
                     <=> getSchemaType(e.schema) \in {"object", "array"}
        /\ Len(fnOut.simple) + Len(fnOut.complex) = Len(entries(fnNode))
        /\ InDeclOrder(fnNode, fnOut.simple)
        /\ InDeclOrder(fnNode, fnOut.complex)

\* the scenario {name: string, tags: array, enabled: boolean}
C8_Witness ==
    /\ fnOut.op = "ObjectField"
    /\ entries(fnNode) = << [name |-> "name", schema |-> StringProp],
                            [name |-> "tags", schema |-> ArrayProp],
                            [name |-> "enabled", schema |-> BooleanProp] >>
    /\ fnOut.simple = <<"name", "enabled">>
    /\ fnOut.complex = <<"tags">>

\* C9: the resolved kind is the kind-hint when one is present (the first entry of a
\* list, the scalar itself otherwise), whatever else the node holds; otherwise
\* object when properties is present; otherwise array when items is present;
\* otherwise string.
C9_ResolvePriority ==
    fnOut.op = "getSchemaType" =>
        /\ (Has(fnNode, "type") /\ ~fnNode.type.isArray) => fnOut.type = fnNode.type.name
        /\ (Has(fnNode, "type") /\ fnNode.type.isArray /\ fnNode.type.list # <<>>)
              => fnOut.type = Head(fnNode.type.list)
        /\ (~Has(fnNode, "type") /\ Has(fnNode, "properties")) => fnOut.type = "object"
        /\ (~Has(fnNode, "type") /\ ~Has(fnNode, "properties") /\ Has(fnNode, "items"))
              => fnOut.type = "array"
        /\ (~Has(fnNode, "type") /\ ~Has(fnNode, "properties") /\ ~Has(fnNode, "items"))
              => fnOut.type = "string"

\* a list kind-hint wins over properties, items and enum all being present
C9_Witness ==
    /\ fnOut.op = "getSchemaType"
    /\ Has(fnNode, "type") /\ fnNode.type.isArray /\ fnNode.type.list = <<"null", "string">>
    /\ Has(fnNode, "properties") /\ Has(fnNode, "items") /\ Has(fnNode, "enum")
    /\ fnOut.type = "null"

\* C10: getDefaultValue returns schema.default itself whenever a default is present,
\* falsy defaults included, and otherwise the zero value of the resolved kind:
\* a new empty object, a new empty array, false, 0 (number and integer), "".
C10_DefaultSynthesis ==
    fnOut.op = "getDefaultValue" =>
        LET type == getSchemaType(fnNode) IN
        /\ Has(fnNode, "default") => fnOut.val = fnNode.default /\ heap = SchemaHeap
        /\ (~Has(fnNode, "default") /\ type = "object")
              => IsRef(fnOut.val) /\ heap[fnOut.val.a] = ObjNode(<<>>)
                   /\ fnOut.val.a > Len(SchemaHeap)
        /\ (~Has(fnNode, "default") /\ type = "array")
              => IsRef(fnOut.val) /\ heap[fnOut.val.a] = ArrNode(<<>>)
                   /\ fnOut.val.a > Len(SchemaHeap)
        /\ (~Has(fnNode, "default") /\ type = "boolean") => fnOut.val = Bool(FALSE)
        /\ (~Has(fnNode, "default") /\ type \in {"number", "integer"}) => fnOut.val = Num(0)
        /\ (~Has(fnNode, "default") /\ type = "string") => fnOut.val = Str("")

\* a falsy default (null) of an object-kind node is returned, not a new {}
C10_Witness ==
    /\ fnOut.op = "getDefaultValue"
    /\ Has(fnNode, "default") /\ fnNode.default = Null
    /\ getSchemaType(fnNode) = "object"
    /\ fnOut.val = Null

-----------------------------------------------------------------------------
(* Claims about editing, checked under Spec *)

LeafEvents == {"toggle", "select", "number", "textarea", "text"}

Edited == event # NoEvent

\* the call made by the editor the event was dispatched to
LeafCall == calls[1]

\* the call SchemaForm's root ObjectField made, to the caller's onChange
RootCall == calls[Len(calls)]

DeclaredNames(s) == {d.name : d \in Range(entries(s))}

SchemaOf(s, n) == (CHOOSE d \in Range(entries(s)) : d.name = n).schema

KeysOf(ents) == {ents[i].key : i \in 1..Len(ents)}

\* every key of the object v0 that the schema does not declare is in v with the
\* value it has in v0, at this level and below declared object-kind properties
RECURSIVE UndeclaredKept(_, _, _)
UndeclaredKept(s, v0, v) ==
    IsRef(v0) =>
        \A k \in KeysOf(objValue(heap, v0)) :
            IF k \in DeclaredNames(s)
            THEN ChildEditor(SchemaOf(s, k)) = "ObjectField"
                    => UndeclaredKept(SchemaOf(s, k), Lookup(objValue(heap, v0), k),
                                      Lookup(objValue(heap, v), k))
            ELSE /\ HasKey(objValue(heap, v), k)
                 /\ Lookup(objValue(heap, v), k) = Lookup(objValue(heap, v0), k)

\* C1: an edit of a declared property p through an object editor emits an object
\* in which every other key of the value received, declared or not, has the value
\* it had; so after any sequence of edits every undeclared key the session started
\* with is still there with its original value.
C1_UnknownPropertiesPreserved ==
    /\ \A i \in 1..Len(calls) :
        calls[i].editor = "ObjectField" =>
            /\ IsRef(calls[i].emitted)
            /\ heap[calls[i].emitted.a].k = "object"
            /\ \A k \in KeysOf(objValue(heap, calls[i].received)) \ {calls[i].step.key} :
                /\ HasKey(heap[calls[i].emitted.a].ents, k)
                /\ Lookup(heap[calls[i].emitted.a].ents, k)
                     = Lookup(objValue(heap, calls[i].received), k)
    /\ UndeclaredKept(schema, root0, root)

\* two edits of declared properties of a value with undeclared keys at three levels
C1_Witness ==
    /\ nEdits = 2
    /\ schema = SchemaB
    /\ event.ev = "number"
    /\ event.path = <<Key("sub"), Key("rows"), Idx(0), Key("a")>>
    /\ Lookup(objValue(heap, root0), "meta") = Ref(9)
    /\ Lookup(objValue(heap, root), "meta") = Ref(9)
    /\ Lookup(objValue(heap, Lookup(objValue(heap, root), "sub")), "unk") = Num(5)
    /\ Lookup(objValue(heap, calls[2].emitted), "z") = Bool(TRUE)
    /\ root # root0

\* the child of a container the editor reads at a step
ChildAt(editor, v, step) ==
    IF editor = "ObjectField" THEN Lookup(objValue(heap, v), step.key)
    ELSE IF step.idx + 1 <= Len(arrayValue(heap, v)) THEN arrayValue(heap, v)[step.idx + 1]
    ELSE Undefined

\* the children of the emitted container other than the one at the step are the
\* very children of the received container, and there are no others
SiblingsShared(c) ==
    IF c.editor = "ObjectField"
    THEN /\ heap[c.emitted.a].k = "object"
         /\ KeysOf(heap[c.emitted.a].ents) = KeysOf(objValue(heap, c.received)) \cup {c.step.key}
         /\ \A k \in KeysOf(objValue(heap, c.received)) \ {c.step.key} :
                Lookup(heap[c.emitted.a].ents, k) = Lookup(objValue(heap, c.received), k)
    ELSE /\ heap[c.emitted.a].k = "array"
         /\ Len(heap[c.emitted.a].elems) = Len(arrayValue(heap, c.received))
         /\ \A j \in 1..Len(arrayValue(heap, c.received)) :
                j # c.step.idx + 1 => heap[c.emitted.a].elems[j] = arrayValue(heap, c.received)[j]

\* C2: after a leaf edit at path p every container on the path from the root to p
\* is a newly created one, whose children off the path are the identical children
\* of the pre-edit container at that place.
C2_StructuralSharing ==
    (Edited /\ event.ev \in LeafEvents) =>
        /\ RootCall.path = <<>>
        /\ RootCall.received = event.rootBefore
        /\ RootCall.emitted = root
        /\ Len(calls) = Len(event.path) + 1
        /\ \A i \in 2..Len(calls) :
            /\ calls[i].path = SubSeq(event.path, 1, Len(event.path) + 1 - i)
            /\ calls[i].step = event.path[Len(event.path) + 2 - i]
            /\ IsRef(calls[i].emitted)
            /\ calls[i].emitted.a > event.heapLen
            /\ SiblingsShared(calls[i])
            /\ ChildAt(calls[i].editor, calls[i].emitted, calls[i].step) = calls[i - 1].emitted
            /\ ChildAt(calls[i].editor, calls[i].received, calls[i].step) = calls[i - 1].received

\* a number typed four levels down: the other row, the sibling array and the
\* undeclared object are the containers the session started with
C2_Witness ==
    /\ schema = SchemaB
    /\ event.ev = "number"
    /\ event.path = <<Key("sub"), Key("rows"), Idx(0), Key("a")>>
    /\ event.rootBefore = Ref(10)
    /\ Lookup(objValue(heap, root), "grid") = Ref(8)
    /\ Lookup(objValue(heap, root), "meta") = Ref(9)
    /\ arrayValue(heap, calls[3].emitted)[2] = Ref(4)
    /\ Lookup(objValue(heap, root), "sub") # Ref(6)

\* exactly one onChange call reaches the caller, and it carries the new root
OneRootDelivered(cs, r) ==
    /\ Cardinality({i \in 1..Len(cs) : cs[i].path = <<>>}) = 1
    /\ cs[Len(cs)].path = <<>>
    /\ cs[Len(cs)].emitted = r

\* C3: no event changes a container that exists: every value handed out before,
\* with all its subtrees, stays as it was, and each event delivers exactly one
\* new root to the caller.
C3_NoMutation ==
    [][/\ \A a \in 1..Len(heap) : a <= Len(heap') /\ heap'[a] = heap[a]
       /\ OneRootDelivered(calls', root')
       /\ root0' = root0]_vars

\* an item of the initial array was edited and the initial array still holds it
C3_Witness ==
    /\ schema = SchemaA
    /\ event.ev = "text"
    /\ event.path = <<Key("tags"), Idx(1)>>
    /\ event.rootBefore = Ref(5)
    /\ heap[4] = ArrNode(<<Str("x"), Str("y")>>)
    /\ arrayValue(heap, Lookup(objValue(heap, root), "tags")) = <<Str("x"), Str("hello")>>

\* C4: remove(i) on an array of length n emits an array of length n - 1 in which
\* the elements before i keep index and value and the elements after i are one
\* index lower, value unchanged.
C4_RemoveShiftsDown ==
    (Edited /\ event.ev = "remove") =>
        LET R == arrayValue(heap, LeafCall.received)
            E == heap[LeafCall.emitted.a].elems
            i == event.index
        IN  /\ heap[LeafCall.emitted.a].k = "array"
            /\ i \in 0..(Len(R) - 1)
            /\ Len(E) = Len(R) - 1
            /\ \A j \in 0..(i - 1) : E[j + 1] = R[j + 1]
            /\ \A j \in (i + 1)..(Len(R) - 1) : E[j] = R[j + 1]

\* the middle element of a three-element array is removed
C4_Witness ==
    /\ event.ev = "remove"
    /\ event.index = 1
    /\ arrayValue(heap, LeafCall.received) = <<Str("x"), Str("y"), Str("")>>
    /\ arrayValue(heap, LeafCall.emitted) = <<Str("x"), Str("")>>

\* C5: append on an array of length n emits an array of length n + 1: the n
\* elements in order, then the synthesized default of the item schema, "" when
\* the schema has no items, a new empty object for an object item schema
\* without default.
C5_AppendSynthesizes ==
    (Edited /\ event.ev = "add") =>
        LET R == arrayValue(heap, LeafCall.received)
            E == heap[LeafCall.emitted.a].elems
            s == LeafCall.schema
            last == E[Len(E)]
        IN  /\ heap[LeafCall.emitted.a].k = "array"
            /\ Len(E) = Len(R) + 1
            /\ \A j \in 1..Len(R) : E[j] = R[j]
            /\ ~Has(s, "items") => last = Str("")
            /\ (Has(s, "items") /\ Has(s.items, "default")) => last = s.items.default
            /\ (Has(s, "items") /\ ~Has(s.items, "default")) =>
                  CASE getSchemaType(s.items) = "object" ->
                          IsRef(last) /\ last.a > event.heapLen /\ heap[last.a] = ObjNode(<<>>)
                    [] getSchemaType(s.items) = "array" ->
                          IsRef(last) /\ last.a > event.heapLen /\ heap[last.a] = ArrNode(<<>>)
                    [] getSchemaType(s.items) = "boolean" -> last = Bool(FALSE)
                    [] getSchemaType(s.items) \in {"number", "integer"} -> last = Num(0)
                    [] OTHER -> last = Str("")

\* a row is appended to two rows: the item schema is an object with properties and
\* no default, the new row is {}
C5_Witness ==
    /\ event.ev = "add"
    /\ event.path = <<Key("sub"), Key("rows")>>
    /\ Len(arrayValue(heap, LeafCall.received)) = 2
    /\ Len(arrayValue(heap, LeafCall.emitted)) = 3
    /\ heap[arrayValue(heap, LeafCall.emitted)[3].a] = ObjNode(<<>>)

IsStrictPrefix(p, q) == Len(p) < Len(q) /\ SubSeq(q, 1, Len(p)) = p

\* C6: an array editor whose value is not an array shows no items and offers
\* append only, and append emits the one-element array of the synthesized default.
C6_NonArrayIsEmpty ==
    /\ \A ed \in SchemaFormRender(schema, root, heap) :
        (ed.editor = "ArrayField" /\ ~IsArray(heap, ed.value)) =>
            /\ \A other \in SchemaFormRender(schema, root, heap) :
                    ~IsStrictPrefix(ed.path, other.path)
            /\ EditorEvents(ed, heap) = {[ev |-> "add", path |-> ed.path]}
    /\ (Edited /\ event.ev = "add" /\ ~IsArray(heap, LeafCall.received)) =>
            /\ IsArray(heap, LeafCall.emitted)
            /\ Len(heap[LeafCall.emitted.a].elems) = 1
            /\ heap[LeafCall.emitted.a].elems[1]
                 = getDefaultValue(itemSchema(LeafCall.schema),
                                   SubSeq(heap, 1, event.heapLen)).val

\* append where the value is an object, and where it is null
C6_Witness ==
    /\ nEdits = 2
    /\ schema = SchemaB
    /\ event.ev = "add"
    /\ event.path = <<Key("grid")>>
    /\ LeafCall.received = Ref(4)
    /\ heap[4].k = "object"
    /\ arrayValue(heap, LeafCall.emitted) = <<DefaultArray>>
    /\ IsArray(heap, Lookup(objValue(heap, Lookup(objValue(heap, root), "sub")), "rows"))

\* no literal before position `option` of the enum has the string representation
\* of the literal at that position
FirstOfItsString(enum, option) ==
    \A j \in 1..(option - 1) : String(enum[j]) # String(enum[option])

\* C7 as stated: a selection event for any literal of the enum propagates that
\* literal itself, with its type.
C7_EveryLiteralRoundTrips ==
    (Edited /\ event.ev = "select") =>
        LeafCall.emitted = LeafCall.schema.enum[event.option]

\* C7 as amended: a selection event for a literal whose string representation no
\* earlier literal of the enum has propagates that literal itself, with its type.
C7_FirstLiteralRoundTrips ==
    (Edited /\ event.ev = "select"
        /\ FirstOfItsString(LeafCall.schema.enum, event.option)) =>
            LeafCall.emitted = LeafCall.schema.enum[event.option]

\* the boolean literal false is selected and false, not "false", is propagated
C7_Witness ==
    /\ event.ev = "select"
    /\ LeafCall.schema.enum[event.option] = Bool(FALSE)
    /\ LeafCall.emitted = Bool(FALSE)
    /\ Lookup(objValue(heap, root), "level") = Bool(FALSE)

\* a mapping in the sense of the data model: an object that is not an array
IsMapping(h, v) == IsRef(v) /\ h[v.a].k = "object"

\* the editors rendered directly below the editor ed
ChildrenOf(ed) ==
    {c \in SchemaFormRender(schema, root, heap) :
        Len(c.path) = Len(ed.path) + 1 /\ IsStrictPrefix(ed.path, c.path)}

\* C14: whenever the value of an object editor is not an object-shaped value
\* (absent, null, a scalar or an array), every declared property reads as absent
\* and an edit of property p to v emits exactly the one-key object {p: v}.
C14_NonObjectIsEmptyMapping ==
    /\ \A ed \in SchemaFormRender(schema, root, heap) :
        (ed.editor = "ObjectField" /\ ~IsMapping(heap, ed.value)) =>
            \A c \in ChildrenOf(ed) : c.value = Undefined
    /\ \A i \in 2..Len(calls) :
        (calls[i].editor = "ObjectField" /\ ~IsMapping(heap, calls[i].received)) =>
            /\ IsRef(calls[i].emitted)
            /\ heap[calls[i].emitted.a]
                 = ObjNode(<<Ent(calls[i].step.key, calls[i - 1].emitted)>>)

\* the values the enum mapping of a node produces, one per option of the choice
EnumMapped(s) == {onValueChange(s, String(s.enum[i])) : i \in 1..Len(s.enum)}

\* C15: a primitive node with a non-empty enum is rendered as a closed choice
\* whatever its kind (string, number, integer or boolean), and every value its
\* editor emits is one the enum mapping produces.
C15_EnumForcesClosedChoice ==
    /\ \A ed \in SchemaFormRender(schema, root, heap) :
        (ed.editor = "PrimitiveField" /\ hasEnum(ed.schema)) =>
            /\ control(ed.schema) = "Select"
            /\ \A e \in EditorEvents(ed, heap) : e.ev = "select"
    /\ (Edited /\ event.ev \in LeafEvents /\ hasEnum(LeafCall.schema)) =>
            LeafCall.emitted \in EnumMapped(LeafCall.schema)

ResolvedKinds == {"object", "array", "string", "number", "integer", "boolean"}

\* C16: for every schema node, partial or malformed ones included, getSchemaType
\* returns one of object, array, string, number, integer, boolean; a node whose
\* kind cannot be resolved yields string.
C16_ResolveCodomain ==
    fnOut.op = "getSchemaType" =>
        /\ fnOut.type \in ResolvedKinds
        /\ (~Has(fnNode, "properties") /\ ~Has(fnNode, "items")
              /\ (Has(fnNode, "type") =>
                    \/ fnNode.type.isArray /\ fnNode.type.list = <<>>
                    \/ ~fnNode.type.isArray /\ fnNode.type.name \notin ResolvedKinds))
              => fnOut.type = "string"

IsNumber(v) == v.t = "number"
IsInteger(v) == v.t = "number" /\ v.k = 0

\* C17: an edit of a number or integer field without enum emits a number or the
\* absent value: absent for a text that does not parse (never NaN, never a
\* string), an integer for the integer kind (the digits before "." or "e"), the
\* decimal value of the text for the number kind.
C17_NumericEditOutcome ==
    (Edited /\ event.ev = "number") =>
        LET kind == getSchemaType(LeafCall.schema)
            out == LeafCall.emitted
        IN  /\ kind \in {"number", "integer"}
            /\ ~hasEnum(LeafCall.schema)
            /\ out = Undefined \/ IsNumber(out)
            /\ kind = "integer" => (out = Undefined \/ IsInteger(out))
            /\ event.chars \in {<<>>, <<"x">>} => out = Undefined
            /\ event.chars = <<"4">> => out = Num(4)
            /\ event.chars = <<"-", "3">> => out = Num(-3)
            /\ event.chars = <<"1", ".", "5">>
                  => out = (IF kind = "integer" THEN Num(1) ELSE Dec(15, 1))
            /\ event.chars = <<"1", "e", "2">>
                  => out = (IF kind = "integer" THEN Num(1) ELSE Num(100))

\* "1e2" is typed into the number field and then "x": the property was 100 and is
\* now absent
C17_Witness ==
    /\ nEdits = 2
    /\ schema = SchemaC
    /\ event.ev = "number"
    /\ event.chars = <<"x">>
    /\ event.path = <<Key("ratio")>>
    /\ Lookup(objValue(heap, event.rootBefore), "ratio") = Num(100)
    /\ HasKey(objValue(heap, root), "ratio")
    /\ Lookup(objValue(heap, root), "ratio") = Undefined

\* a string-kind node edited in the single-line text input
SingleLineString(s) ==
    /\ getSchemaType(s) = "string"
    /\ ~(Has(s, "enum") /\ Len(s.enum) > 0)
    /\ ~(Has(s, "format") /\ s.format = "textarea")
    /\ ~(Has(s, "maxLength") /\ s.maxLength > 200)

\* C18: a string-kind field with no enum, format other than "textarea" and
\* maxLength not above 200 is edited as single-line text; an edit to the empty
\* string emits the absent value, an edit to a non-empty string emits that string.
C18_EmptyTextIsAbsent ==
    /\ \A ed \in SchemaFormRender(schema, root, heap) :
        (ed.editor = "PrimitiveField" /\ SingleLineString(ed.schema)) =>
            EditorEvents(ed, heap) = {[ev |-> "text", path |-> ed.path, text |-> x] : x \in Texts}
    /\ (Edited /\ event.ev = "text") =>
            /\ SingleLineString(LeafCall.schema)
            /\ LeafCall.emitted = (IF event.text = "" THEN Undefined ELSE Str(event.text))

\* the title "t" (maxLength 200) is edited to the empty string: the key stays,
\* its value is absent
C18_Witness ==
    /\ schema = SchemaC
    /\ event.ev = "text"
    /\ event.text = ""
    /\ event.path = <<Key("title")>>
    /\ Lookup(objValue(heap, event.rootBefore), "title") = Str("t")
    /\ LeafCall.emitted = Undefined
    /\ Lookup(objValue(heap, root), "title") = Undefined

\* C19: update(i, x) on an array of length n, 0 <= i < n, emits a new array of
\* length n whose element at i is x and whose element at every other index is
\* the identical element of the array received.
C19_ArrayUpdate ==
    \A c \in 2..Len(calls) :
        (calls[c].editor = "ArrayField" /\ "idx" \in DOMAIN calls[c].step) =>
            LET R == arrayValue(heap, calls[c].received)
                i == calls[c].step.idx
                x == calls[c - 1].emitted
            IN  /\ i \in 0..(Len(R) - 1)
                /\ IsArray(heap, calls[c].emitted)
                /\ calls[c].emitted.a > event.heapLen
                /\ calls[c].emitted # calls[c].received
                /\ Len(heap[calls[c].emitted.a].elems) = Len(R)
                /\ heap[calls[c].emitted.a].elems[i + 1] = x
                /\ \A j \in 1..Len(R) : j # i + 1 => heap[calls[c].emitted.a].elems[j] = R[j]

\* the second of two rows is updated: the first row of the new array is the
\* first row of the old one, the second row is a new object
C19_Witness ==
    /\ schema = SchemaB
    /\ event.ev = "text"
    /\ event.path = <<Key("sub"), Key("rows"), Idx(1), Key("b")>>
    /\ calls[3].editor = "ArrayField"
    /\ calls[3].step = Idx(1)
    /\ arrayValue(heap, calls[3].received) = <<Ref(3), Ref(4)>>
    /\ arrayValue(heap, calls[3].emitted) = <<Ref(3), calls[2].emitted>>
    /\ calls[2].emitted # Ref(4)

ContainerCalls == {i \in 1..Len(calls) : calls[i].editor \in {"ObjectField", "ArrayField"}}

\* C20: no editor writes a synthesized default except array append: mounting the
\* form emits nothing, an edit of property p emits an object with the keys it
\* received and p, p holding what the property's editor emitted, a required
\* property that is absent stays absent when another one is edited, and no event
\* other than append creates a container beyond the copies on its path.
C20_NoEagerDefaulting ==
    /\ ~Edited => (calls = <<>> /\ root = root0)
    /\ \A i \in 2..Len(calls) :
        calls[i].editor = "ObjectField" =>
            /\ KeysOf(heap[calls[i].emitted.a].ents)
                 = KeysOf(objValue(heap, calls[i].received)) \cup {calls[i].step.key}
            /\ Lookup(heap[calls[i].emitted.a].ents, calls[i].step.key) = calls[i - 1].emitted
            /\ \A r \in Range(requiredFields(calls[i].schema)) :
                (~HasKey(objValue(heap, calls[i].received), r) /\ r # calls[i].step.key)
                    => ~HasKey(heap[calls[i].emitted.a].ents, r)
    /\ (Edited /\ event.ev # "add") =>
            Len(heap) - event.heapLen = Cardinality(ContainerCalls)
    /\ (Edited /\ event.ev = "add") =>
            Len(heap) - event.heapLen \in {Cardinality(ContainerCalls), Cardinality(ContainerCalls) + 1}

\* two edits of a form whose required properties title, ratio and opts are all
\* absent: they are still absent, the root holds the two edited keys only
C20_Witness ==
    /\ nEdits = 2
    /\ schema = SchemaC
    /\ root0 = Ref(3)
    /\ heap[3] = ObjNode(<<>>)
    /\ KeysOf(objValue(heap, root)) = {"notes", "mode"}
    /\ event.path = <<Key("mode")>>

-----------------------------------------------------------------------------
(* Claims about ModuleEditorPage: saving and resetting *)

IsEditEvent == event.ev \in {"toggle", "select", "number", "textarea", "text", "add", "remove"}

\* the set-config request the last click on Save sent
SaveRequest == CHOOSE m \in net : m.id = page.save.id

SaveSent == event.ev = "save" /\ \E m \in net : m.id = page.save.id

\* the endpoint of the scope the page was opened for
ScopeEndpoint ==
    IF page.subscriptionId = NoParam
    THEN tenantModuleEndpoint(TenantId, ModulePath)
    ELSE subscriptionModuleEndpoint(TenantId, page.subscriptionId, ModulePath)

\* C12 (as stated): on save, the payload passed to the set-config call is the last
\* root the form emitted, or the loaded composed value if no edit happened, and
\* the call goes to the subscription endpoint when a subscriptionId is present
\* and to the tenant endpoint otherwise.
C12_SaveSubmitsVerbatim ==
    event.ev = "save" =>
        /\ SaveSent
        /\ SaveRequest.method = "PUT"
        /\ SaveRequest.config = IF nEdits > 0 THEN RootCall.emitted
                                ELSE composedOf(heap, page.configData)
        /\ SaveRequest.endpoint = ScopeEndpoint

\* C12 (amended): on save, the payload passed to the set-config call is the form
\* value the page holds at that moment, the same object, unmodified; the form
\* value is the root the form emitted last or the composed value of the
\* configuration loaded last, whichever came later (the emitted root right after
\* an edit, the composed value as long as nothing was edited); the call goes to
\* the subscription endpoint when a subscriptionId is present and to the tenant
\* endpoint otherwise.
C12_SaveSubmitsFormValue ==
    /\ root = Null
        \/ (calls # <<>> /\ root = RootCall.emitted)
        \/ (IsRef(page.configData) /\ root = composedOf(heap, page.configData))
    /\ IsEditEvent => root = RootCall.emitted
    /\ nEdits = 0 /\ IsRef(page.configData) => root = composedOf(heap, page.configData)
    /\ event.ev = "save" =>
        /\ SaveSent
        /\ SaveRequest.stage = "request"
        /\ SaveRequest.method = "PUT"
        /\ SaveRequest.config = root
        /\ root = event.rootBefore
        /\ Len(heap) = event.heapLen
        /\ SaveRequest.body = stringify(heap, root)
        /\ SaveRequest.endpoint = ScopeEndpoint

\* Save is clicked on the subscription's page after an edit: the emitted root
\* goes to the subscription endpoint
C12_Witness ==
    /\ event.ev = "save"
    /\ page.subscriptionId = "s1"
    /\ nEdits = 1
    /\ root = RootCall.emitted
    /\ root # composedOf(heap, page.configData)
    /\ SaveRequest.config = root
    /\ SaveRequest.endpoint = <<"tenants", "t1", "subscriptions", "s1", "modules", "m1">>

\* the page has just received the answer to its reset request, and it is a success
ResetSucceeded ==
    /\ event.ev = "receive"
    /\ event.method = "DELETE"
    /\ event.status \in 200..299
    /\ page.reset.status = "success"

\* the form shows what the backend now computes as the composed configuration
ShowsComposed == IsRef(root) /\ stringify(heap, root) = Composed(server)

\* C13: after a reset request issued from the page has succeeded, the form value
\* eventually equals the composed configuration the backend computes, whatever
\* was edited locally before.
C13_ResetRevertsDisplay == ResetSucceeded ~> ShowsComposed

-----------------------------------------------------------------------------
(* Claims about the closed-choice editor as a function of the selected string *)

\* C21: on a selection with string v, the value passed to onChange is the first
\* literal of the enum, in declaration order, whose string representation is v;
\* when no literal has that string representation, it is the string v itself.
C21_EnumTieBreakAndFallback ==
    fnOut.op = "onValueChange" =>
        \/ \E i \in 1..Len(fnNode.enum) :
            /\ String(fnNode.enum[i]) = fnOut.v
            /\ \A j \in 1..(i - 1) : String(fnNode.enum[j]) # fnOut.v
            /\ fnOut.val = fnNode.enum[i]
        \/ /\ \A i \in 1..Len(fnNode.enum) : String(fnNode.enum[i]) # fnOut.v
           /\ fnOut.val = Str(fnOut.v)

\* "1" is selected in the enum [1, "1", false, "1"]: the number 1 is passed on
C21_Witness ==
    /\ fnOut.op = "onValueChange"
    /\ fnNode.enum = <<Num(1), Str("1"), Bool(FALSE), Str("1")>>
    /\ fnOut.v = "1"
    /\ fnOut.val = Num(1)

-----------------------------------------------------------------------------
(* Claims about two sessions *)

\* the addresses of the containers the value v consists of
RECURSIVE Reach(_, _)
Reach(h, v) ==
    IF ~IsRef(v) THEN {}
    ELSE {v.a} \cup UNION {Reach(h, OwnEntries(h, v)[i].val) : i \in 1..Len(OwnEntries(h, v))}

\* the value v is in h2 what it is in h1, with all its subtrees
SameValue(h1, h2, v) == \A a \in Reach(h1, v) : a <= Len(h2) /\ h2[a] = h1[a]

\* C23: of two sessions over the same schema with two different root values, an
\* edit in one leaves the other's root value and all its subtrees unchanged, also
\* when both values hold containers in common or the schema's default values.
C23_SessionNonInterference ==
    [][/\ root' # root => peer' = peer /\ SameValue(heap, heap', peer)
       /\ peer' # peer => root' = root /\ SameValue(heap, heap', root)
       /\ (root' # root) # (peer' # peer)]_vars

\* both forms have appended the schema's default item to the array they had in
\* common: each holds its own new array, both end with the default array itself
C23_Witness ==
    /\ nEdits = 2
    /\ event.ev = "add"
    /\ event.path = <<Key("grid")>>
    /\ Lookup(objValue(heap, root), "grid") # Lookup(objValue(heap, peer), "grid")
    /\ arrayValue(heap, Lookup(objValue(heap, root), "grid")) = <<DefaultArray, DefaultArray>>
    /\ arrayValue(heap, Lookup(objValue(heap, peer), "grid")) = <<DefaultArray, DefaultArray>>
    /\ heap[3] = ArrNode(<<DefaultArray>>)

-----------------------------------------------------------------------------
(* Claims about the depth of the editor tree *)

Max(S) == CHOOSE x \in S : \A y \in S : y <= x

\* the nesting depth of a schema node edited by the given editor: the number of
\* object and array levels on its longest branch
RECURSIVE NestingDepth(_, _)
NestingDepth(editor, s) ==
    CASE editor = "ObjectField" ->
            1 + Max({0} \cup {NestingDepth(ChildEditor(d.schema), d.schema) :
                                d \in Range(entries(s))})
      [] editor = "ArrayField" ->
            1 + (IF Has(s, "items") THEN NestingDepth(ChildEditor(s.items), s.items) ELSE 0)
      [] OTHER -> 0

\* the number of container levels of a value
RECURSIVE ValueDepth(_, _)
ValueDepth(h, v) ==
    IF ~IsRef(v) THEN 0
    ELSE 1 + Max({0} \cup {ValueDepth(h, OwnEntries(h, v)[i].val) :
                            i \in 1..Len(OwnEntries(h, v))})

\* C24: the render of every schema and value is a finite tree of editors in which
\* no object or array editor is nested deeper than the schema's nesting depth,
\* however large or deep the value is.
C24_BoundedRecursion ==
    /\ IsFiniteSet(SchemaFormRender(schema, root, heap))
    /\ \A ed \in SchemaFormRender(schema, root, heap) :
        ed.editor # "PrimitiveField" =>
            Len(ed.path) + 1 <= NestingDepth("ObjectField", schema)

\* a value four containers deep under a schema of depth two, after an edit: the
\* array editor of "tags" is on the second level and has three item editors
C24_Witness ==
    /\ nEdits = 1
    /\ schema = SchemaA
    /\ NestingDepth("ObjectField", schema) = 2
    /\ ValueDepth(heap, root) = 4
    /\ \E ed \in SchemaFormRender(schema, root, heap) :
        /\ ed.editor = "ArrayField"
        /\ ed.path = <<Key("tags")>>
        /\ Len(arrayValue(heap, ed.value)) = 3

-----------------------------------------------------------------------------
(* Claims about the sections *)

\* the flag of a section the user has not toggled since it was mounted is `open`
\* below depth 2 and its opposite from depth 2 on
StartsAs(open) ==
    \A p \in DOMAIN view :
        ~view[p].toggled => view[p].isOpen = (IF view[p].depth < 2 THEN open ELSE ~open)

\* a click on a section header has changed neither the value nor the heap, and
\* has called no onChange
TogglePresentational ==
    event.ev = "section" =>
        /\ root = event.rootBefore
        /\ Len(heap) = event.heapLen
        /\ calls = <<>>
        /\ view[event.path].toggled

\* C25 (as stated): a section starts collapsed when its nesting depth is below 2
\* and expanded when it is 2 or greater; toggling it never changes the value or
\* invokes the change callback.
C25_StartsCollapsedBelowTwo == StartsAs(FALSE) /\ TogglePresentational

\* C25 (amended): a section starts expanded when its nesting depth is below 2 and
\* collapsed when it is 2 or greater; toggling it never changes the value or
\* invokes the change callback.
C25_StartsExpandedBelowTwo == StartsAs(TRUE) /\ TogglePresentational

\* the section of a.b.c, on depth 2 and closed at first, has been opened, and
\* the untouched sections of a and a.b are open; the value is as it was
C25_Witness ==
    /\ event.ev = "section"
    /\ event.path = <<Key("a"), Key("b"), Key("c")>>
    /\ view[event.path] = [isOpen |-> TRUE, depth |-> 2, toggled |-> TRUE]
    /\ view[<<Key("a")>>] = [isOpen |-> TRUE, depth |-> 0, toggled |-> FALSE]
    /\ view[<<Key("a"), Key("b")>>] = [isOpen |-> TRUE, depth |-> 1, toggled |-> FALSE]
    /\ root = root0

-----------------------------------------------------------------------------
(* Claims about what the primitive editors emit *)

\* C26: every value the Select of an enum field emits is a literal of schema.enum,
\* namely one whose string representation is the selected option: no selection
\* the Select offers takes the raw-string fallback.
C26_EnumEmitsMember ==
    event.ev = "select" =>
        /\ control(LeafCall.schema) = "Select"
        /\ \E i \in 1..Len(LeafCall.schema.enum) :
            /\ String(LeafCall.schema.enum[i]) = String(LeafCall.schema.enum[event.option])
            /\ LeafCall.emitted = LeafCall.schema.enum[i]

\* the option "false" of the enum [1, "1", false] has been selected: the boolean
\* literal is emitted, not the string
C26_Witness ==
    /\ event.ev = "select"
    /\ LeafCall.schema.enum = <<Num(1), Str("1"), Bool(FALSE)>>
    /\ event.option = 3
    /\ LeafCall.emitted = Bool(FALSE)
    /\ Lookup(objValue(heap, root), "level") = Bool(FALSE)

\* the change of length of the array an ArrayField call emits
LengthChange(c) == Len(arrayValue(heap, c.emitted)) - Len(arrayValue(heap, c.received))

\* C27: when the primitive editor of an array element emits the absent value, the
\* array keeps its length and all other elements, and the element at that index
\* becomes absent in place; an array's length changes only by append (+1) and
\* remove (-1).
C27_AbsentItemKeepsLength ==
    /\ (/\ event.ev \in {"text", "number"}
        /\ LeafCall.emitted = Undefined
        /\ "idx" \in DOMAIN event.path[Len(event.path)])
        => /\ calls[2].editor = "ArrayField"
           /\ LengthChange(calls[2]) = 0
           /\ \A i \in 1..Len(arrayValue(heap, calls[2].received)) :
                arrayValue(heap, calls[2].emitted)[i] =
                    IF i = calls[2].step.idx + 1 THEN Undefined
                    ELSE arrayValue(heap, calls[2].received)[i]
    /\ \A k \in 1..Len(calls) :
        calls[k].editor = "ArrayField" =>
            LengthChange(calls[k]) = IF calls[k].step # NoStep THEN 0
                                     ELSE IF event.ev = "add" THEN 1 ELSE -1

\* the first of the numbers [1, 2] has been overwritten with text that is no
\* number: the array is [undefined, 2]
C27_Witness ==
    /\ event.ev = "number"
    /\ event.chars = <<"x">>
    /\ event.path = <<Key("nums"), Idx(0)>>
    /\ LeafCall.emitted = Undefined
    /\ arrayValue(heap, calls[2].received) = <<Num(1), Num(2)>>
    /\ arrayValue(heap, Lookup(objValue(heap, root), "nums")) = <<Undefined, Num(2)>>

\* C28: a multi-line string field (format "textarea" or maxLength > 200) emits
\* the entered text verbatim on every edit, the empty string included, while the
\* single-line text field emits the absent value for the empty string.
C28_TextareaVerbatim ==
    /\ (/\ event.ev \in {"text", "textarea"}
        /\ \/ Has(LeafCall.schema, "format") /\ LeafCall.schema.format = "textarea"
           \/ Has(LeafCall.schema, "maxLength") /\ LeafCall.schema.maxLength > 200)
        => /\ event.ev = "textarea"
           /\ LeafCall.emitted = Str(event.text)
    /\ (event.ev = "text" /\ event.text = "") => LeafCall.emitted = Undefined

\* the textarea of sub.x, which held "q", has been cleared: the value holds ""
C28_Witness ==
    /\ event.ev = "textarea"
    /\ event.text = ""
    /\ event.path = <<Key("sub"), Key("x")>>
    /\ LeafCall.received = Str("q")
    /\ LeafCall.emitted = Str("")
    /\ Lookup(objValue(heap, Lookup(objValue(heap, root), "sub")), "x") = Str("")

-----------------------------------------------------------------------------
(* Claims about the page with a backend that may fail *)

\* the save requests in flight: sent, and the answer not yet received
SavesInFlight == {m \in net : m.method = "PUT"}

\* C29: Save is enabled only while a form value exists and no save is pending, so
\* at most one save request is in flight at any time, and a save never submits a
\* null value; a failed save leaves the form value unchanged.
C29_OneSaveInFlight ==
    /\ saveEnabled => Truthy(root) /\ SavesInFlight = {}
    /\ Cardinality(SavesInFlight) <= 1
    /\ (page.save.status = "pending") = (SavesInFlight # {})
    /\ event.ev = "save" => Truthy(event.rootBefore) /\ event.rootBefore = root
    /\ \A m \in SavesInFlight :
        m.stage = "request" => IsRef(m.config) /\ m.body = stringify(heap, m.config)
    /\ (event.ev = "receive" /\ event.method = "PUT" /\ event.status \notin 200..299)
        => /\ root = event.rootBefore
           /\ Len(heap) = event.heapLen
           /\ page.save.status = "error"

\* the second save of an edited form has failed: the form holds the edited value,
\* and Save is enabled again
C29_Witness ==
    /\ event.ev = "receive"
    /\ event.method = "PUT"
    /\ event.status = 500
    /\ page.nSaves = 2
    /\ nEdits = 1
    /\ root = RootCall.emitted
    /\ root = event.rootBefore
    /\ page.toast = "Failed to save"
    /\ saveEnabled

====
